---------------------------- MODULE Spec2Model ----------------------------
(***************************************************************************)
(* A model of the Gagiteck dashboard and of the integration code its       *)
(* developer guide documents.                                              *)
(*                                                                         *)
(*   Part A  dashboard request pipeline: the Next.js middleware (all the   *)
(*           versions the repository holds), the signup page's             *)
(*           getServerSideProps and the app-level AuthWrapper.             *)
(*   Part B  webhook receivers of docs/DEVELOPER.md (Flask and Express).   *)
(*   Part C  executions: the dashboard's trigger and cancel handlers over  *)
(*           the REST API's execution resource and the workflow engine.    *)
(*   Part D  the agent runner's tool-calling loop.                         *)
(*   Part E  the API's rate limiter.                                       *)
(*                                                                         *)
(* The API server is not part of the source tree; its side is modelled     *)
(* from spec.md and from the API reference of the documentation.           *)
(*                                                                         *)
(* Each part has its own specification; the variables of the other parts   *)
(* stay at their initial values under it.                                  *)
(***************************************************************************)
EXTENDS Integers, Sequences, FiniteSets, TLC

VARIABLES
    \* Part A
    build,        \* which version of the middleware file is deployed
    navPc,        \* position of the page load: idle, responded, mounted, resolved
    reqPath,      \* pathname of the HTTP request (a sequence of path tokens)
    reqToken,     \* whether the request carries a valid session token
    mwRan,        \* whether the matcher selected the request for the middleware
    mwOut,        \* the middleware's answer: "none", "next" or "redirect"
    location,     \* target of the last redirect answer
    pathname,     \* router.pathname of the mounted page
    status,       \* useSession().status
    rendered,     \* what AuthWrapper returned: none, spinner, children
    pushed,       \* argument of the last router.push, or NoPath
    \* Part B
    flavour,      \* the receiver: "flask" or "express"
    hookSecret,   \* WEBHOOK_SECRET of the receiver
    hookPc,       \* idle, or done once the request is answered
    hookPayload,  \* raw request body
    hookJson,     \* whether the body parses as a JSON event
    hookHasSig,   \* whether the X-Webhook-Signature header is present
    hookSig,      \* its value, a sequence of characters
    hookEvent,    \* value of the X-Webhook-Event header
    hookVerify,   \* outcome of the signature verification
    hookStatus,   \* HTTP status of the answer, 0 before it
    hookHandler,  \* the event handler that ran, or "none"
    \* Part C
    deps,         \* depends_on of each step of workflow wf_1
    execs,        \* the execution records of the API, by id
    lastTrigger,  \* the last answer to POST /v1/workflows/{id}/trigger
    dashPage,     \* the dashboard page shown: "workflow" or "executions"
    dashList,     \* ExecutionsPage's executions state: status by id
    cancellingId, \* ExecutionsPage's cancellingId state, 0 for null
    cancelPc,     \* handleCancel: "idle", or the answer it awaits the refresh after
    alertMsg,     \* the last alert shown
    \* Part D
    max_iterations, \* config.max_iterations of the agent that runs
    runPc,        \* idle, model (a model call is out), tool, done
    iterations,   \* tool-calling iterations of the run so far
    tool_calls,   \* tool_calls of the run: the names of the tools called
    outcome,      \* how the run ended: "none", "response" or "error"
    \* Part E
    now,          \* the API's clock, in ticks
    used,         \* requests of each API key accepted in the current window
    lastKey,      \* the key of the last request
    lastStatus,   \* HTTP status of the last answer, 0 before it
    hdrRemaining, \* X-RateLimit-Remaining of the last answer to each key
    hdrWindow,    \* the window that answer was given in, -1 before it
    retry_after,  \* retry-after of the last answer, 0 when it has none
    \* Part F
    agents,       \* the agents of the store, by id
    created,      \* the answers of POST /v1/agents, by id
    touched,      \* the ids updated or deleted since their creation
    fetched,      \* the last answer of GET /v1/agents/{id}
    \* Part G
    fetchPc,      \* request(): idle, sent, settled
    fetchMethod,  \* method of the fetch call
    fetchBody,    \* body of the fetch call: json or undefined
    respStatus,   \* response.status, 0 before the response
    respBody,     \* the response's body
    result,       \* what request() ended with
    \* Part H
    keyIds,       \* the ids of the API keys the server holds
    keyCount,     \* the number of keys created so far
    clipboard,    \* the text last written to the clipboard
    activeTab,    \* the tab of the settings page
    apiKeys,      \* the page's apiKeys state
    showCreateKey,\* whether the create modal is open
    newKeyName,   \* the name field of the modal
    newlyCreatedKey,\* the page's newlyCreatedKey state
    copiedKey,    \* the page's copiedKey state
    \* Part I
    NEXTAUTH_URL, \* process.env.NEXTAUTH_URL
    NEXT_PUBLIC_APP_URL,\* process.env.NEXT_PUBLIC_APP_URL
    NODE_ENV,     \* process.env.NODE_ENV
    redirectUrl,  \* the url the redirect callback was called with
    redirectTo,   \* the URL it returned
    \* Part J
    authBuild,    \* which version of the NextAuth options is deployed
    authPc,       \* idle, signedIn or rejected
    credentials,  \* the credentials submitted
    loginAnswer,  \* how POST /v1/auth/login ended, or not_called
    meAnswer,     \* how GET /v1/auth/me ended, or not_called
    loginToken,   \* the access_token of the login answer
    authUser,     \* what authorize returned
    authSession,  \* the session
    sentRequest,  \* the last request of the settings page
    sentAuth,     \* its Authorization header
    \* Part K
    formPage,     \* which of the two pages is open
    suPassword,   \* signup, the password field
    suConfirm,    \* signup, the confirmation field
    isLoading,    \* signup, the submit button is disabled
    suError,      \* signup, the error message
    success,      \* signup, the account was created
    suPc,         \* signup, idle or waiting for the API
    suSent,       \* signup, requests sent
    newPassword,  \* change password, the new password
    confirmPassword,\* change password, the confirmation
    passwordError,\* change password, the error message
    passwordSuccess,\* change password, the success note
    cpPc,         \* change password, idle or waiting
    cpSent,       \* change password, requests sent
    \* Part L
    max_requests, \* RateLimiter.max_requests
    window_seconds,\* RateLimiter.window_seconds
    requests,     \* RateLimiter.requests, the deque of recorded times
    clock,        \* time.time()
    returns,      \* the times at which acquire() returned
    \* Part M
    max_retries,  \* the decorator's max_retries
    retryPc,      \* idle, loop, returned or raised
    attempt,      \* the loop variable
    outcomes,     \* how each invocation of the wrapped function ended, in order
    raised,       \* the error the call raised, or none
    slept,        \* seconds slept in the call
    \* Part N
    pollLoop,     \* which of the two documented loops runs
    pollPc,       \* idle, polling, exited (the test failed or break) or limit
    pollId,       \* execution.id
    pollStatus,   \* execution.status, as last fetched
    polls,        \* passes of the for loop
    \* Part O
    isOpen,       \* the search modal is open
    query,        \* the text of the input
    results,      \* the result list
    loading,      \* the spinner is shown
    selectedIndex,\* the highlighted result
    timers,       \* the pending timers
    searchTimeout,\* the handle the effect's cleanup will clear, 0 for none
    nextHandle,   \* the handle of the next setTimeout
    inflight,     \* the requests sent and not yet answered
    sinceEdit,    \* ms since the query last changed, up to 300
    selected,     \* the result handleSelect was last called with
    \* Part P
    route,        \* the page the router is on
    lsDismissed,  \* localStorage onboarding-dismissed is 'true'
    lsCompleted,  \* localStorage onboarding-completed is 'true'
    lsSteps,      \* the steps localStorage onboarding-steps has as completed
    isVisible,    \* Onboarding state
    currentStep,  \* Onboarding state, the index of the selected step
    dismissed,    \* Onboarding state
    showTimer,    \* the timer of the mount effect is pending
    completed,    \* the steps whose completed is true in the state
    neverAgain,   \* the user chose not to see the modal again, or completed all steps
    everCompleted \* the steps ever marked completed

varsA == <<build, navPc, reqPath, reqToken, mwRan, mwOut, location,
           pathname, status, rendered, pushed>>

varsB == <<flavour, hookSecret, hookPc, hookPayload, hookJson, hookHasSig,
           hookSig, hookEvent, hookVerify, hookStatus, hookHandler>>

varsApi == <<deps, execs, lastTrigger>>
varsDash == <<dashPage, dashList, cancellingId, cancelPc, alertMsg>>
varsC == <<varsApi, varsDash>>

varsD == <<max_iterations, runPc, iterations, tool_calls, outcome>>

varsE == <<now, used, lastKey, lastStatus, hdrRemaining, hdrWindow, retry_after>>

varsF == <<agents, created, touched, fetched>>

varsG == <<fetchPc, fetchMethod, fetchBody, respStatus, respBody,
           result>>

varsH == <<keyIds, keyCount, clipboard, activeTab, apiKeys,
           showCreateKey, newKeyName, newlyCreatedKey, copiedKey>>

varsI == <<NEXTAUTH_URL, NEXT_PUBLIC_APP_URL, NODE_ENV, redirectUrl,
           redirectTo>>

varsJ == <<authBuild, authPc, credentials, loginAnswer, meAnswer,
           loginToken, authUser, authSession, sentRequest, sentAuth>>

varsK == <<formPage, suPassword, suConfirm, isLoading, suError,
           success, suPc, suSent, newPassword, confirmPassword,
           passwordError, passwordSuccess, cpPc, cpSent>>

varsL == <<max_requests, window_seconds, requests, clock, returns>>

varsM == <<max_retries, retryPc, attempt, outcomes, raised, slept>>

varsN == <<pollLoop, pollPc, pollId, pollStatus, polls>>

varsO == <<isOpen, query, results, loading, selectedIndex, timers,
           searchTimeout, nextHandle, inflight, sinceEdit, selected>>

varsP == <<route, lsDismissed, lsCompleted, lsSteps, isVisible,
           currentStep, dismissed, showTimer, completed, neverAgain,
           everCompleted>>

vars == <<varsA, varsB, varsC, varsD, varsE, varsF, varsG, varsH,
         varsI, varsJ, varsK, varsL, varsM, varsN, varsO, varsP>>

\* A step of one part leaves the other parts alone.
OnlyA == UNCHANGED <<varsB, varsC, varsD, varsE, varsF, varsG, varsH,
                     varsI, varsJ, varsK, varsL, varsM, varsN, varsO,
                     varsP>>
OnlyB == UNCHANGED <<varsA, varsC, varsD, varsE, varsF, varsG, varsH,
                     varsI, varsJ, varsK, varsL, varsM, varsN, varsO,
                     varsP>>
OnlyC == UNCHANGED <<varsA, varsB, varsD, varsE, varsF, varsG, varsH,
                     varsI, varsJ, varsK, varsL, varsM, varsN, varsO,
                     varsP>>
OnlyD == UNCHANGED <<varsA, varsB, varsC, varsE, varsF, varsG, varsH,
                     varsI, varsJ, varsK, varsL, varsM, varsN, varsO,
                     varsP>>
OnlyE == UNCHANGED <<varsA, varsB, varsC, varsD, varsF, varsG, varsH,
                     varsI, varsJ, varsK, varsL, varsM, varsN, varsO,
                     varsP>>
OnlyF == UNCHANGED <<varsA, varsB, varsC, varsD, varsE, varsG, varsH,
                     varsI, varsJ, varsK, varsL, varsM, varsN, varsO,
                     varsP>>
OnlyG == UNCHANGED <<varsA, varsB, varsC, varsD, varsE, varsF, varsH,
                     varsI, varsJ, varsK, varsL, varsM, varsN, varsO,
                     varsP>>
OnlyH == UNCHANGED <<varsA, varsB, varsC, varsD, varsE, varsF, varsG,
                     varsI, varsJ, varsK, varsL, varsM, varsN, varsO,
                     varsP>>
OnlyI == UNCHANGED <<varsA, varsB, varsC, varsD, varsE, varsF, varsG,
                     varsH, varsJ, varsK, varsL, varsM, varsN, varsO,
                     varsP>>
OnlyJ == UNCHANGED <<varsA, varsB, varsC, varsD, varsE, varsF, varsG,
                     varsH, varsI, varsK, varsL, varsM, varsN, varsO,
                     varsP>>
OnlyK == UNCHANGED <<varsA, varsB, varsC, varsD, varsE, varsF, varsG,
                     varsH, varsI, varsJ, varsL, varsM, varsN, varsO,
                     varsP>>
OnlyL == UNCHANGED <<varsA, varsB, varsC, varsD, varsE, varsF, varsG,
                     varsH, varsI, varsJ, varsK, varsM, varsN, varsO,
                     varsP>>
OnlyM == UNCHANGED <<varsA, varsB, varsC, varsD, varsE, varsF, varsG,
                     varsH, varsI, varsJ, varsK, varsL, varsN, varsO,
                     varsP>>
OnlyN == UNCHANGED <<varsA, varsB, varsC, varsD, varsE, varsF, varsG,
                     varsH, varsI, varsJ, varsK, varsL, varsM, varsO,
                     varsP>>
OnlyO == UNCHANGED <<varsA, varsB, varsC, varsD, varsE, varsF, varsG,
                     varsH, varsI, varsJ, varsK, varsL, varsM, varsN,
                     varsP>>
OnlyP == UNCHANGED <<varsA, varsB, varsC, varsD, varsE, varsF, varsG,
                     varsH, varsI, varsJ, varsK, varsL, varsM, varsN,
                     varsO>>

-----------------------------------------------------------------------------
(***************************************************************************)
(* Part A.  Paths.                                                         *)
(*                                                                         *)
(* A pathname is a sequence of tokens, each token a piece of text; the     *)
(* pathname is their concatenation.  Every literal the code tests with     *)
(* startsWith, includes or a matcher pattern is a whole number of tokens,  *)
(* so a test on characters is a test on tokens.  "x" stands for any other  *)
(* character.  In a matcher pattern "." is read as the literal dot.        *)
(***************************************************************************)
MaxPathLen == 3

SlashToks == {"/", "/auth", "/signin", "/signup", "/error", "/api",
              "/_next", "/static", "/image", "/favicon", "/robots"}
PlainToks == {".ico", ".txt", "x"}
Tokens == SlashToks \cup PlainToks

Paths == {p \in UNION {[1..n -> Tokens] : n \in 1..MaxPathLen} :
            p[1] \in SlashToks}

NoPath == << >>

\* String.prototype.startsWith
StartsWith(p, pre) ==
    /\ Len(p) >= Len(pre)
    /\ SubSeq(p, 1, Len(pre)) = pre

SignInPath  == <<"/auth", "/signin">>
SignUpPath  == <<"/auth", "/signup">>
ErrorPath   == <<"/auth", "/error">>
ApiAuthPath == <<"/api", "/auth">>
RootPath    == <<"/">>

\* middleware.ts:6-11, part_007:5-10
publicPaths == {SignInPath, SignUpPath, ErrorPath, ApiAuthPath}

\* _app.tsx:9
publicPages == {SignInPath, ErrorPath}

Builds == {"middleware_a", "middleware_b", "part_007", "part_008"}

(***************************************************************************)
(* config.matcher is a single pattern with a negative lookahead: it        *)
(* selects a pathname unless the text after the leading slash starts with  *)
(* one of the lookahead's alternatives, which MatcherExcluded lists.       *)
(***************************************************************************)
MatcherExcluded(b) ==
    CASE b = "middleware_a" ->
           {<<"/_next", "/static">>, <<"/_next", "/image">>, <<"/favicon", ".ico">>}
      [] b = "middleware_b" ->
           {<<"/auth">>, ApiAuthPath, <<"/_next">>, <<"/favicon", ".ico">>,
            <<"/robots", ".txt">>}
      [] b = "part_007" ->
           {<<"/_next", "/static">>, <<"/_next", "/image">>, <<"/favicon", ".ico">>}
      [] b = "part_008" ->
           {SignInPath, SignUpPath, ErrorPath, ApiAuthPath,
            <<"/_next", "/static">>, <<"/_next", "/image">>,
            <<"/favicon", ".ico">>, <<"/robots", ".txt">>}

MatcherSelects(b, p) == \A alt \in MatcherExcluded(b) : ~StartsWith(p, alt)

\* pages.signIn of the withAuth options; middleware.ts:33 passes none, and
\* next-auth then uses its own sign-in page.
SignInPage(b) ==
    IF b = "middleware_a" THEN <<"/api", "/auth", "/signin">> ELSE SignInPath

\* The public-path and static-file tests of middleware.ts:16-30 and of the
\* authorized callback of part_007:18-35.
IsPublic(p) ==
    \/ \E path \in publicPaths : StartsWith(p, path)
    \/ StartsWith(p, <<"/_next">>)
    \/ StartsWith(p, <<"/favicon">>)
    \/ StartsWith(p, <<"/robots">>)

\* callbacks.authorized
Authorized(b, p, token) ==
    CASE b = "part_007" -> IsPublic(p) \/ token
      [] OTHER          -> token

(***************************************************************************)
(* withAuth (next-auth/middleware): requests for the NextAuth API, for the *)
(* configured sign-in page and for next-auth's own public paths are passed *)
(* on; for the others the authorized callback decides, and a request it    *)
(* rejects is redirected to the sign-in page.                              *)
(***************************************************************************)
WithAuth(b, p, token) ==
    IF \/ StartsWith(p, ApiAuthPath)
       \/ p = SignInPage(b)
       \/ StartsWith(p, <<"/_next">>)
       \/ StartsWith(p, <<"/favicon", ".ico">>)
       \/ Authorized(b, p, token)
    THEN "next"
    ELSE "redirect"

\* The exported middleware function of each version.
Middleware(b, p, token) ==
    CASE b = "middleware_a" -> IF IsPublic(p) THEN "next" ELSE WithAuth(b, p, token)
      [] OTHER              -> WithAuth(b, p, token)

\* What Next.js answers for a request: the middleware's answer when the
\* matcher selects the pathname, and the route itself otherwise.
Respond(b, p, token) ==
    IF MatcherSelects(b, p) THEN Middleware(b, p, token) ELSE "next"

(***************************************************************************)
(* Pages.                                                                  *)
(***************************************************************************)
Pages == {RootPath, SignInPath, SignUpPath, ErrorPath, <<"/", "x">>}

\* signup.tsx:209-224
GetServerSideProps(session) == IF session THEN "redirect" ELSE "props"

\* The mutant of AuthWrapper: the content is held back only while the
\* session is loading.
AuthWrapperLoadingOnly(page, st) ==
    IF page \in publicPages THEN <<"children", FALSE>>
    ELSE IF st = "loading" THEN <<"spinner", FALSE>>
    ELSE <<"children", FALSE>>

\* _app.tsx:11-40: <<what is rendered, whether router.push('/auth/signin') ran>>
AuthWrapper(page, st) ==
    IF page \in publicPages THEN <<"children", FALSE>>
    ELSE IF st = "loading" THEN <<"spinner", FALSE>>
    ELSE IF st = "unauthenticated" THEN <<"spinner", TRUE>>
    ELSE <<"children", FALSE>>

InitA ==
    /\ build \in Builds
    /\ navPc = "idle"
    /\ reqPath = NoPath
    /\ reqToken = FALSE
    /\ mwRan = FALSE
    /\ mwOut = "none"
    /\ location = NoPath
    /\ pathname = NoPath
    /\ status = "loading"
    /\ rendered = "none"
    /\ pushed = NoPath

\* The browser requests a pathname, with or without a session token.
Request ==
    /\ navPc = "idle"
    /\ \E p \in Paths, token \in BOOLEAN :
         /\ reqPath' = p
         /\ reqToken' = token
         /\ mwRan' = MatcherSelects(build, p)
         /\ mwOut' = Respond(build, p, token)
         /\ location' = IF Respond(build, p, token) = "redirect"
                        THEN SignInPage(build) ELSE NoPath
    /\ navPc' = "responded"
    /\ UNCHANGED <<build, pathname, status, rendered, pushed>>
    /\ OnlyA

\* The browser follows the redirect: a new request for the location.
FollowRedirect ==
    /\ navPc = "responded"
    /\ location # NoPath
    /\ reqPath' = location
    /\ mwRan' = MatcherSelects(build, location)
    /\ mwOut' = Respond(build, location, reqToken)
    /\ location' = IF Respond(build, location, reqToken) = "redirect"
                   THEN SignInPage(build) ELSE NoPath
    /\ UNCHANGED <<build, navPc, reqToken, pathname, status, rendered, pushed>>
    /\ OnlyA

\* The request reached a page: its getServerSideProps runs (the signup page
\* has one), then the app mounts with the session still loading.
ServePage ==
    /\ navPc = "responded"
    /\ mwOut = "next"
    /\ reqPath \in Pages
    /\ IF reqPath = SignUpPath /\ GetServerSideProps(reqToken) = "redirect"
       THEN /\ location' = RootPath
            /\ mwOut' = "redirect"
            /\ UNCHANGED <<navPc, pathname, status, rendered, pushed>>
       ELSE /\ navPc' = "mounted"
            /\ pathname' = reqPath
            /\ status' = "loading"
            /\ rendered' = AuthWrapper(reqPath, "loading")[1]
            /\ pushed' = NoPath
            /\ UNCHANGED <<location, mwOut>>
    /\ UNCHANGED <<build, reqPath, reqToken, mwRan>>
    /\ OnlyA

\* useSession settles; AuthWrapper renders again.
SessionResolved ==
    /\ navPc = "mounted"
    /\ LET st == IF reqToken THEN "authenticated" ELSE "unauthenticated"
           out == AuthWrapper(pathname, st)
       IN /\ status' = st
          /\ rendered' = out[1]
          /\ pushed' = IF out[2] THEN SignInPath ELSE NoPath
    /\ navPc' = "resolved"
    /\ UNCHANGED <<build, reqPath, reqToken, mwRan, mwOut, location, pathname>>
    /\ OnlyA

\* router.push takes effect: the sign-in page is mounted.
RouterPush ==
    /\ navPc = "resolved"
    /\ pushed # NoPath
    /\ pathname # pushed
    /\ pathname' = pushed
    /\ rendered' = AuthWrapper(pushed, status)[1]
    /\ UNCHANGED <<build, navPc, reqPath, reqToken, mwRan, mwOut, location,
                   status, pushed>>
    /\ OnlyA

\* The visitor leaves; the next request starts from scratch.
Leave ==
    /\ navPc # "idle"
    /\ navPc' = "idle"
    /\ reqPath' = NoPath
    /\ reqToken' = FALSE
    /\ mwRan' = FALSE
    /\ mwOut' = "none"
    /\ location' = NoPath
    /\ pathname' = NoPath
    /\ status' = "loading"
    /\ rendered' = "none"
    /\ pushed' = NoPath
    /\ UNCHANGED build
    /\ OnlyA

NextA ==
    \/ Request
    \/ FollowRedirect
    \/ ServePage
    \/ SessionResolved
    \/ RouterPush
    \/ Leave


-----------------------------------------------------------------------------
(***************************************************************************)
(* Part A.  Claims.                                                        *)
(***************************************************************************)

\* The pathnames claim C1 lists: the three authentication pages, the
\* routes under /api/auth/, the internals under /_next/, favicon.ico and
\* robots.txt.  (/api/auth and /_next themselves are counted in.)
C1_Listed(p) ==
    \/ p \in {SignInPath, SignUpPath, ErrorPath}
    \/ StartsWith(p, ApiAuthPath) /\ (Len(p) = 2 \/ p[3] \in SlashToks)
    \/ StartsWith(p, <<"/_next">>) /\ (Len(p) = 1 \/ p[2] \in SlashToks)
    \/ p = <<"/favicon", ".ico">>
    \/ p = <<"/robots", ".txt">>

\* C1: a request without a session token is passed on only if its pathname
\* is one of the listed public ones; for every other pathname a token is
\* required.
C1_TokenRequired ==
    (navPc # "idle" /\ ~reqToken /\ mwOut = "next") => C1_Listed(reqPath)

\* C2: an unauthenticated visitor who opens /auth/signup is shown the signup
\* form: the middleware passes the request on, getServerSideProps returns
\* props, and AuthWrapper renders the page and starts no navigation.
C2_SignupShown ==
    (reqPath = SignUpPath /\ ~reqToken) =>
        /\ navPc = "responded" => mwOut = "next"
        /\ navPc = "resolved" =>
              /\ pathname = SignUpPath
              /\ rendered = "children"
              /\ pushed = NoPath

-----------------------------------------------------------------------------
(***************************************************************************)
(* Part B.  Webhook receivers (docs/DEVELOPER.md, Flask and Express).      *)
(*                                                                         *)
(* Text is a sequence of characters.  HMAC-SHA256 is modelled as an ideal  *)
(* keyed digest: a fixed number of hex digits, different for different     *)
(* (secret, payload) pairs.  That it has no collisions is assumed of the   *)
(* hash, not checked here; what the receivers do with it is.               *)
(***************************************************************************)
MaxPayloadLen == 2

Secrets == {1, 2}
Bytes == {0, 1}
Payloads == UNION {[1..n -> Bytes] : n \in 0..MaxPayloadLen}

HexDigit(n) == SubSeq(<<"0", "1", "2", "3", "4", "5", "6", "7", "8", "9",
                        "a", "b", "c", "d", "e", "f">>, n + 1, n + 1)

RECURSIVE Hex(_)
Hex(bs) == IF bs = << >> THEN << >> ELSE HexDigit(Head(bs)) \o Hex(Tail(bs))

\* hmac.new(secret, payload, sha256).hexdigest(),
\* createHmac('sha256', secret).update(payload).digest('hex')
HexDigest(secret, payload) ==
    Hex(<<secret, Len(payload)>> \o payload
        \o [i \in 1..(MaxPayloadLen - Len(payload)) |-> 0])

Prefix == <<"s", "h", "a", "2", "5", "6", "=">>

\* f"sha256={expected}", `sha256=${expected}`
Expected(secret, payload) == Prefix \o HexDigest(secret, payload)

NonAscii == "e'"

\* The header values tried: every well-formed signature, and each of them
\* cut short, extended, stripped of its prefix and with its last character
\* replaced by a non-ASCII one; and the empty value.
SigValues ==
    LET good == {Expected(s, p) : s \in Secrets, p \in Payloads}
    IN  good
        \cup {SubSeq(g, 1, Len(g) - 1) : g \in good}
        \cup {g \o <<"0">> : g \in good}
        \cup {SubSeq(g, Len(Prefix) + 1, Len(g)) : g \in good}
        \cup {SubSeq(g, 1, Len(g) - 1) \o <<NonAscii>> : g \in good}
        \cup {<< >>}

IsAscii(str) == \A i \in 1..Len(str) : str[i] # NonAscii

\* Number of positions at which two texts of the same length differ.
RECURSIVE Differences(_, _)
Differences(a, b) ==
    IF a = << >> THEN 0
    ELSE (IF Head(a) = Head(b) THEN 0 ELSE 1) + Differences(Tail(a), Tail(b))

\* The mutant of CompareDigest: compares only as far as the shorter text goes.
CompareDigestPrefixOnly(a, hasB, b) ==
    IF ~hasB \/ ~IsAscii(a) \/ ~IsAscii(b) THEN "TypeError"
    ELSE LET n == IF Len(a) < Len(b) THEN Len(a) ELSE Len(b)
         IN  IF Differences(SubSeq(a, 1, n), SubSeq(b, 1, n)) = 0
             THEN "true" ELSE "false"

\* hmac.compare_digest(a, b) on str arguments: a TypeError unless both are
\* ASCII text (None is not); else whether they are equal, taking the same
\* time whatever the position of a difference.
CompareDigest(a, hasB, b) ==
    IF ~hasB \/ ~IsAscii(a) \/ ~IsAscii(b) THEN "TypeError"
    ELSE IF Len(a) # Len(b) THEN "false"
    ELSE IF Differences(a, b) = 0 THEN "true" ELSE "false"

\* Buffer.from(str): the UTF-8 bytes of the text.
RECURSIVE Utf8(_)
Utf8(str) ==
    IF str = << >> THEN << >>
    ELSE (IF Head(str) = NonAscii THEN <<"c3", "a9">> ELSE <<Head(str)>>)
         \o Utf8(Tail(str))

\* crypto.timingSafeEqual(Buffer.from(a), Buffer.from(b)): Buffer.from
\* throws a TypeError for undefined, timingSafeEqual a RangeError for
\* buffers of different byte lengths.
TimingSafeEqual(a, hasB, b) ==
    IF ~hasB THEN "TypeError"
    ELSE IF Len(Utf8(a)) # Len(Utf8(b)) THEN "RangeError"
    ELSE IF Differences(Utf8(a), Utf8(b)) = 0 THEN "true" ELSE "false"

\* DEVELOPER.md:407-413
verify_signature(secret, payload, hasSig, signature) ==
    CompareDigest(Expected(secret, payload), hasSig, signature)

\* DEVELOPER.md:453-462
verifySignature(secret, payload, hasSig, signature) ==
    TimingSafeEqual(Expected(secret, payload), hasSig, signature)

Events == {"execution.completed", "execution.failed", "execution.started"}

\* The handler the dispatch on the event type calls.
Dispatch(event) ==
    CASE event = "execution.completed" -> "completed"
      [] event = "execution.failed"    -> "failed"
      [] OTHER                         -> "none"

InitB ==
    /\ flavour \in {"flask", "express"}
    /\ hookSecret \in Secrets
    /\ hookPc = "idle"
    /\ hookPayload = << >>
    /\ hookJson = FALSE
    /\ hookHasSig = FALSE
    /\ hookSig = << >>
    /\ hookEvent = "none"
    /\ hookVerify = "none"
    /\ hookStatus = 0
    /\ hookHandler = "none"

\* The request a receiver is sent: any body, any signature header or none.
Delivery(p, json, has, g, ev) ==
    /\ hookPc = "idle"
    /\ hookPayload' = p
    /\ hookJson' = json
    /\ hookHasSig' = has
    /\ hookSig' = g
    /\ hookEvent' = ev
    /\ hookPc' = "done"
    /\ UNCHANGED <<flavour, hookSecret>>

\* DEVELOPER.md:415-431; an exception the view does not catch is answered
\* with 500, a body that is not JSON with 400.
handle_webhook ==
    /\ flavour = "flask"
    /\ hookPc = "idle"
    /\ \E p \in Payloads, json \in BOOLEAN, has \in BOOLEAN,
          g \in SigValues, ev \in Events :
         /\ has \/ g = << >>
         /\ Delivery(p, json, has, g, ev)
         /\ LET v == verify_signature(hookSecret, p, has, g)
            IN  /\ hookVerify' = v
                /\ hookStatus' = CASE v = "TypeError" -> 500
                                   [] v = "false"     -> 401
                                   [] ~json           -> 400
                                   [] OTHER           -> 200
                /\ hookHandler' = IF v = "true" /\ json
                                  THEN Dispatch(ev) ELSE "none"
    /\ OnlyB

\* DEVELOPER.md:464-484; an exception thrown in the route (by
\* verifySignature or by JSON.parse) is answered with 500.
gagiteck_webhook ==
    /\ flavour = "express"
    /\ hookPc = "idle"
    /\ \E p \in Payloads, json \in BOOLEAN, has \in BOOLEAN,
          g \in SigValues, ev \in Events :
         /\ has \/ g = << >>
         /\ Delivery(p, json, has, g, ev)
         /\ LET v == verifySignature(hookSecret, p, has, g)
            IN  /\ hookVerify' = v
                /\ hookStatus' = CASE v \in {"TypeError", "RangeError"} -> 500
                                   [] v = "false"                      -> 401
                                   [] ~json                            -> 500
                                   [] OTHER                            -> 200
                /\ hookHandler' = IF v = "true" /\ json
                                  THEN Dispatch(ev) ELSE "none"
    /\ OnlyB

\* The receiver waits for the next request.
HookIdle ==
    /\ hookPc = "done"
    /\ hookPc' = "idle"
    /\ hookPayload' = << >>
    /\ hookJson' = FALSE
    /\ hookHasSig' = FALSE
    /\ hookSig' = << >>
    /\ hookEvent' = "none"
    /\ hookVerify' = "none"
    /\ hookStatus' = 0
    /\ hookHandler' = "none"
    /\ UNCHANGED <<flavour, hookSecret>>
    /\ OnlyB

NextB ==
    \/ handle_webhook
    \/ gagiteck_webhook
    \/ HookIdle

-----------------------------------------------------------------------------
(***************************************************************************)
(* Part B.  Claims.                                                        *)
(***************************************************************************)

\* C3: for every payload, secret and signature header value, verification
\* returns true exactly when the value is "sha256=" followed by the hex
\* HMAC of the payload under the secret; so the signature computed for a
\* payload is accepted for it, and for any other payload it is rejected.
C3_VerifyExact ==
    (hookPc = "done" /\ hookHasSig) =>
        /\ hookVerify = "true" <=> hookSig = Expected(hookSecret, hookPayload)
        /\ \A p \in Payloads :
             (p # hookPayload /\ hookSig = Expected(hookSecret, p))
                 => hookVerify = "false"

\* A delivery whose payload was replaced after signing has been rejected.
C3_Witness ==
    /\ hookPc = "done"
    /\ hookHasSig
    /\ hookVerify = "false"
    /\ \E p \in Payloads :
         p # hookPayload /\ hookSig = Expected(hookSecret, p)

\* C4: a request whose signature header is absent, of another length than
\* the expected value or different from it in any character is answered
\* with 401 and runs no event handler; only a request with a valid
\* signature reaches an event handler.
C4_Invalid401 ==
    hookPc = "done" =>
        /\ (~hookHasSig \/ hookSig # Expected(hookSecret, hookPayload))
              => (hookStatus = 401 /\ hookHandler = "none")
        /\ hookHandler # "none"
              => (hookHasSig /\ hookSig = Expected(hookSecret, hookPayload))

-----------------------------------------------------------------------------
(***************************************************************************)
(* Part C.  Executions.                                                    *)
(*                                                                         *)
(* The API server (the execution resource, the workflow engine) is not in  *)
(* the source tree.  Its side is modelled from spec.md: triggering a       *)
(* workflow creates an execution whose status goes from running to a       *)
(* terminal state; the engine iterates the steps in dependency order, one  *)
(* at a time, substitutes the placeholders, calls the step and records its *)
(* output; a step failure marks the execution failed with an error string; *)
(* cancelling sets the status.  The dashboard's side is modelled from its  *)
(* code.                                                                   *)
(***************************************************************************)
MaxSteps == 2
MaxExecs == 2

Steps == 1..MaxSteps

\* The workflows of the store: wf_1 has the steps 1..MaxSteps, wf_new is
\* a workflow as the dashboard creates it, with steps: [] (part_011:63).
WorkflowIds == {"wf_1", "wf_new"}
\* An id no workflow has.
UnknownIds == {"wf_404"}

StepsOf(wf) == IF wf = "wf_1" THEN Steps ELSE {}

\* Whether the depends_on lists d can be ordered: some step of `left` has
\* all its dependencies outside `left`, and so on for the rest.
RECURSIVE Orderable(_, _)
Orderable(d, left) ==
    \/ left = {}
    \/ \E s \in left : d[s] \cap left = {} /\ Orderable(d, left \ {s})

\* The depends_on lists a workflow can have: a DAG over its steps.
DependsOn == {d \in [Steps -> SUBSET Steps] : Orderable(d, Steps)}

\* Three shapes of workflow: independent steps, a chain in list order and
\* a chain against it.
NoDeps == [s \in Steps |-> {}]
Chain == [s \in Steps |-> IF s = 1 THEN {} ELSE {s - 1}]
ReverseChain == [s \in Steps |-> IF s = MaxSteps THEN {} ELSE {s + 1}]

Terminal == {"completed", "failed", "cancelled"}

NoExecution == [type |-> "none", resource_id |-> "none", status |-> "none",
                result |-> {}, error |-> "", done |-> {}, current |-> 0,
                subst |-> {}]

\* Dependency order ignored: the mutant of NextStep takes the steps in list
\* order.
NextStepListOrder(x) ==
    LET left == StepsOf(x.resource_id) \ x.done
    IN  IF left = {} THEN 0 ELSE CHOOSE s \in left : \A t \in left : s <= t

\* The step the engine takes next: the first step of the list that has not
\* run and whose dependencies have all finished; 0 when none is left.
NextStep(x) ==
    LET ready == {s \in StepsOf(x.resource_id) \ x.done : deps[s] \subseteq x.done}
    IN  IF ready = {} THEN 0 ELSE CHOOSE s \in ready : \A t \in ready : s <= t

\* The mutant of NewExecution: the execution is queued, not started.
NewExecutionPending(wf) ==
    [type |-> "workflow", resource_id |-> wf, status |-> "pending",
     result |-> {}, error |-> "", done |-> {}, current |-> 0, subst |-> {}]

\* The execution POST /v1/workflows/{id}/trigger creates.
NewExecution(wf) ==
    [type |-> "workflow", resource_id |-> wf, status |-> "running",
     result |-> {}, error |-> "", done |-> {}, current |-> 0, subst |-> {}]

\* POST /v1/workflows/{id}/trigger: <<the records after it, its answer>>.
Trigger(wf) ==
    IF wf \in WorkflowIds
    THEN <<Append(execs, NewExecution(wf)),
           [ok |-> TRUE, workflow |-> wf, id |-> Len(execs) + 1,
            status |-> "running"]>>
    ELSE <<execs, [ok |-> FALSE, workflow |-> wf, id |-> 0, status |-> "none"]>>

\* The mutant of Cancel: sets the status whatever it is.
CancelAnyStatus(e) ==
    <<[execs EXCEPT ![e].status = "cancelled", ![e].current = 0,
                    ![e].subst = {}], TRUE>>

\* POST /v1/executions/{id}/cancel: a running execution gets the status
\* cancelled; any other is left as it is and the call fails.
Cancel(e) ==
    IF execs[e].status = "running"
    THEN <<[execs EXCEPT ![e].status = "cancelled", ![e].current = 0,
                         ![e].subst = {}], TRUE>>
    ELSE <<execs, FALSE>>

\* The mutant of Failed: the status is set, the error is left empty.
FailedNoError(x) ==
    [x EXCEPT !.status = "failed", !.current = 0, !.subst = {}]

\* The record of an execution after its current step failed: marked
\* failed with an error string, the recorded outputs kept.
Failed(x) ==
    [x EXCEPT !.status = "failed", !.error = "step failed", !.current = 0,
              !.subst = {}]

\* GET /v1/executions: the status of each execution.
ListExecutions == [e \in 1..Len(execs) |-> execs[e].status]

InitC ==
    /\ deps \in DependsOn
    /\ execs = << >>
    /\ lastTrigger = [ok |-> FALSE, workflow |-> "none", id |-> 0, status |-> "none"]
    /\ dashPage = "workflow"
    /\ dashList = << >>
    /\ cancellingId = 0
    /\ cancelPc = "idle"
    /\ alertMsg = "none"

\* An API client (an SDK) triggers a workflow.
ApiTrigger ==
    /\ Len(execs) < MaxExecs
    /\ \E wf \in WorkflowIds \cup UnknownIds :
         /\ execs' = Trigger(wf)[1]
         /\ lastTrigger' = Trigger(wf)[2]
    /\ UNCHANGED <<deps, varsDash>>
    /\ OnlyC

\* An API client cancels an execution.
ApiCancel(e) ==
    /\ e \in 1..Len(execs)
    /\ execs' = Cancel(e)[1]
    /\ UNCHANGED <<deps, lastTrigger, varsDash>>
    /\ OnlyC

\* The engine starts the next step of a running execution: the
\* placeholders of its configuration that name finished steps are replaced
\* by their recorded outputs.
StepStart(e) ==
    /\ e \in 1..Len(execs)
    /\ execs[e].status = "running"
    /\ execs[e].current = 0
    /\ NextStep(execs[e]) # 0
    /\ \E refs \in SUBSET Steps :
         execs' = [execs EXCEPT ![e].current = NextStep(execs[e]),
                                ![e].subst = refs \cap execs[e].done]
    /\ UNCHANGED <<deps, lastTrigger, varsDash>>
    /\ OnlyC

\* The step returns: its output is recorded.
StepFinish(e) ==
    /\ e \in 1..Len(execs)
    /\ execs[e].status = "running"
    /\ execs[e].current # 0
    /\ execs' = [execs EXCEPT ![e].done = @ \cup {execs[e].current},
                              ![e].current = 0,
                              ![e].subst = {}]
    /\ UNCHANGED <<deps, lastTrigger, varsDash>>
    /\ OnlyC

\* The step fails: the execution is marked failed with an error string.
StepFail(e) ==
    /\ e \in 1..Len(execs)
    /\ execs[e].status = "running"
    /\ execs[e].current # 0
    /\ execs' = [execs EXCEPT ![e] = Failed(execs[e])]
    /\ UNCHANGED <<deps, lastTrigger, varsDash>>
    /\ OnlyC

\* No step is left: the execution is completed, its result the outputs.
Complete(e) ==
    /\ e \in 1..Len(execs)
    /\ execs[e].status = "running"
    /\ execs[e].current = 0
    /\ NextStep(execs[e]) = 0
    /\ execs' = [execs EXCEPT ![e].status = "completed",
                              ![e].result = execs[e].done]
    /\ UNCHANGED <<deps, lastTrigger, varsDash>>
    /\ OnlyC

\* The engine's work on execution e.
Engine(e) ==
    \/ StepStart(e)
    \/ StepFinish(e)
    \/ StepFail(e)
    \/ Complete(e)

NextC ==
    \/ ApiTrigger
    \/ \E e \in 1..MaxExecs : ApiCancel(e)
    \/ \E e \in 1..MaxExecs : StepStart(e)
    \/ \E e \in 1..MaxExecs : StepFinish(e)
    \/ \E e \in 1..MaxExecs : StepFail(e)
    \/ \E e \in 1..MaxExecs : Complete(e)

(***************************************************************************)
(* The dashboard: the workflow page's Trigger button and the executions    *)
(* page.  A request and the API's handling of it are one step; what the    *)
(* handler does after an await is a later step.  One handleCancel is in    *)
(* flight at a time.                                                       *)
(***************************************************************************)

\* The mutant of CancelOffered: the button is rendered for every execution.
CancelOfferedAlways(e) == e \in 1..Len(dashList)

\* agents/index.tsx:450: the Cancel button is rendered for the executions
\* the list shows as running.
CancelOffered(e) == e \in 1..Len(dashList) /\ dashList[e] = "running"

\* workflows/[id].tsx:93-105.  The page's workflow may have been deleted
\* since it was loaded.
handleTrigger ==
    /\ dashPage = "workflow"
    /\ Len(execs) < MaxExecs
    /\ \E wf \in WorkflowIds \cup UnknownIds :
         /\ execs' = Trigger(wf)[1]
         /\ lastTrigger' = Trigger(wf)[2]
         /\ IF Trigger(wf)[2].ok
            THEN /\ alertMsg' = "triggered"
                 /\ dashPage' = "executions"
                 /\ dashList' = << >>
                 /\ cancellingId' = 0
            ELSE /\ alertMsg' = "error"
                 /\ UNCHANGED <<dashPage, dashList, cancellingId>>
    /\ UNCHANGED <<deps, cancelPc>>
    /\ OnlyC

\* agents/index.tsx:258-273, run on mount, every 10 seconds and by the
\* Refresh button.
fetchExecutions ==
    /\ dashPage = "executions"
    /\ dashList' = ListExecutions
    /\ UNCHANGED <<varsApi, dashPage, cancellingId, cancelPc, alertMsg>>
    /\ OnlyC

\* agents/index.tsx:282-285: the click on an execution's Cancel button, up
\* to the answer of the cancel call.
handleCancel(e) ==
    /\ dashPage = "executions"
    /\ cancelPc = "idle"
    /\ CancelOffered(e)
    /\ cancellingId # e
    /\ cancellingId' = e
    /\ execs' = Cancel(e)[1]
    /\ cancelPc' = IF Cancel(e)[2] THEN "ok" ELSE "error"
    /\ UNCHANGED <<deps, lastTrigger, dashPage, dashList, alertMsg>>
    /\ OnlyC

\* agents/index.tsx:286-293: the list is fetched again after a successful
\* cancel, an ApiError is alerted; cancellingId is reset either way.
handleCancelSettle ==
    /\ cancelPc # "idle"
    /\ IF cancelPc = "ok"
       THEN dashList' = ListExecutions /\ UNCHANGED alertMsg
       ELSE alertMsg' = "error" /\ UNCHANGED dashList
    /\ cancellingId' = 0
    /\ cancelPc' = "idle"
    /\ UNCHANGED <<varsApi, dashPage>>
    /\ OnlyC

\* The user goes back to the workflow page; the executions page unmounts.
OpenWorkflow ==
    /\ dashPage = "executions"
    /\ cancelPc = "idle"
    /\ dashPage' = "workflow"
    /\ dashList' = << >>
    /\ cancellingId' = 0
    /\ UNCHANGED <<varsApi, cancelPc, alertMsg>>
    /\ OnlyC

NextCD ==
    \/ handleTrigger
    \/ fetchExecutions
    \/ \E e \in 1..MaxExecs : handleCancel(e)
    \/ handleCancelSettle
    \/ OpenWorkflow
    \/ \E e \in 1..MaxExecs : StepStart(e)
    \/ \E e \in 1..MaxExecs : StepFinish(e)
    \/ \E e \in 1..MaxExecs : StepFail(e)
    \/ \E e \in 1..MaxExecs : Complete(e)

-----------------------------------------------------------------------------
(***************************************************************************)
(* Part C.  Claims.                                                        *)
(***************************************************************************)

\* An execution exists with this id.
Exists(e) == e \in 1..Len(execs)

\* Its status, "none" while it does not exist.
StatusOf(e) == IF Exists(e) THEN execs[e].status ELSE "none"

\* The execution a successful trigger answered with is of type workflow,
\* belongs to the workflow triggered and was created running; and an
\* execution, once created, is running or in a terminal status.
C5_Created ==
    /\ lastTrigger.ok =>
          /\ Exists(lastTrigger.id)
          /\ execs[lastTrigger.id].type = "workflow"
          /\ execs[lastTrigger.id].resource_id = lastTrigger.workflow
          /\ lastTrigger.status = "running"
    /\ \A e \in 1..Len(execs) : execs[e].status \in Terminal \cup {"running"}

\* An execution is new in a step only with the status running.
C5_CreatedRunning ==
    Len(execs') > Len(execs) => execs'[Len(execs')].status = "running"

\* C5: after POST /v1/workflows/{id}/trigger succeeds, an execution of type
\* workflow exists whose resource_id is that workflow's id and whose status
\* is running, and that execution eventually reaches one of the terminal
\* statuses completed, failed or cancelled.
C5_TriggerRuns ==
    /\ []C5_Created
    /\ [][C5_CreatedRunning]_vars
    /\ <>[](\A e \in 1..MaxExecs : StatusOf(e) \in Terminal \cup {"none"})

\* A triggered execution of the workflow with steps has come to an end.
C5_Witness ==
    /\ lastTrigger.ok
    /\ lastTrigger.workflow = "wf_1"
    /\ execs[lastTrigger.id].status = "completed"
    /\ execs[lastTrigger.id].done = Steps

\* An execution in a terminal status keeps it.
C6_TerminalStays ==
    \A e \in 1..Len(execs) :
        execs[e].status \in Terminal => execs'[e].status = execs[e].status

\* handleCancel starts only for an execution the list shows as running.
C6_OfferedForRunning ==
    (cancelPc = "idle" /\ cancelPc' # "idle")
        => (cancellingId' \in 1..Len(dashList) /\ dashList[cancellingId'] = "running")

\* After a cancel call that succeeded the execution is cancelled.
C6_CancelledAfterOk ==
    cancelPc = "ok" => execs[cancellingId].status = "cancelled"

C8_FailedHasError ==
    \A e \in 1..Len(execs) :
        execs[e].status = "failed" <=> execs[e].error # ""

\* An execution becomes failed only by the failure of a step it had
\* started, gets an error string with it, and keeps the outputs recorded;
\* and no step of an execution ever loses its recorded output.
C8_FailStep ==
    \A e \in 1..Len(execs) :
        /\ execs[e].done \subseteq execs'[e].done
        /\ (execs[e].status # "failed" /\ execs'[e].status = "failed")
              => /\ execs[e].current # 0
                 /\ execs'[e].error # ""
                 /\ execs'[e].done = execs[e].done

\* C8: if a step of a triggered workflow fails, the execution ends with
\* status failed and a non-empty error string, and the steps that had
\* completed are not undone; a failed execution always has an error.
C8_StepFailure == []C8_FailedHasError /\ [][C8_FailStep]_vars

\* An execution has failed after its first step completed.
C8_Witness ==
    \E e \in 1..Len(execs) :
        /\ execs[e].status = "failed"
        /\ execs[e].done # {}
        /\ execs[e].error # ""

-----------------------------------------------------------------------------
(***************************************************************************)
(* Part D.  The agent runner.                                              *)
(*                                                                         *)
(* POST /v1/agents/{id}/run calls the language model; an answer of the     *)
(* model either is the final content or asks for a tool, whose result is   *)
(* given back to the model.  The loop is bounded by the agent's            *)
(* config.max_iterations.  The runner is not in the source tree and is     *)
(* modelled from spec.md; what a run that reaches the cap answers with is  *)
(* not said there, so both a response and an error are possible.           *)
(***************************************************************************)
MaxIterations == 3

\* The tools of an agent (the API reference shows web_search).
Tools == {"web_search", "calculator"}

\* The mutant of CanIterate: one iteration more than the cap.
CanIterateOffByOne(i, cap) == i <= cap

\* Whether the loop may go into another tool-calling iteration.
CanIterate(i, cap) == i < cap

InitD ==
    /\ max_iterations = 1
    /\ runPc = "idle"
    /\ iterations = 0
    /\ tool_calls = << >>
    /\ outcome = "none"

\* POST /v1/agents/{id}/run for an agent with some iteration cap: the
\* model is called with the message.
AgentRun ==
    /\ runPc = "idle"
    /\ \E cap \in 1..MaxIterations : max_iterations' = cap
    /\ runPc' = "model"
    /\ iterations' = 0
    /\ tool_calls' = << >>
    /\ outcome' = "none"
    /\ OnlyD

\* The model answers with the final content.
ModelAnswers ==
    /\ runPc = "model"
    /\ outcome' = "response"
    /\ runPc' = "done"
    /\ UNCHANGED <<max_iterations, iterations, tool_calls>>
    /\ OnlyD

\* The model asks for a tool and the loop may go on: the tool is called.
ModelCallsTool ==
    /\ runPc = "model"
    /\ CanIterate(iterations, max_iterations)
    /\ \E t \in Tools : tool_calls' = Append(tool_calls, t)
    /\ iterations' = iterations + 1
    /\ runPc' = "tool"
    /\ UNCHANGED <<max_iterations, outcome>>
    /\ OnlyD

\* The model asks for a tool and the cap is reached: the run stops.
CapReached ==
    /\ runPc = "model"
    /\ ~CanIterate(iterations, max_iterations)
    /\ \E o \in {"response", "error"} : outcome' = o
    /\ runPc' = "done"
    /\ UNCHANGED <<max_iterations, iterations, tool_calls>>
    /\ OnlyD

\* The tool returns (a result or an error text): the model is called again.
ToolReturns ==
    /\ runPc = "tool"
    /\ runPc' = "model"
    /\ UNCHANGED <<max_iterations, iterations, tool_calls, outcome>>
    /\ OnlyD

\* The model call fails or the run's timeout expires.
RunFails ==
    /\ runPc \in {"model", "tool"}
    /\ outcome' = "error"
    /\ runPc' = "done"
    /\ UNCHANGED <<max_iterations, iterations, tool_calls>>
    /\ OnlyD

\* The answer is sent; the next run can start.
RunReturns ==
    /\ runPc = "done"
    /\ runPc' = "idle"
    /\ UNCHANGED <<max_iterations, iterations, tool_calls, outcome>>
    /\ OnlyD

\* The steps of a run under way.
RunStep ==
    ModelAnswers \/ ModelCallsTool \/ CapReached \/ ToolReturns \/ RunFails

NextD ==
    \/ AgentRun
    \/ ModelAnswers
    \/ ModelCallsTool
    \/ CapReached
    \/ ToolReturns
    \/ RunFails
    \/ RunReturns

-----------------------------------------------------------------------------
(***************************************************************************)
(* Part D.  Claims.                                                        *)
(***************************************************************************)

\* The iterations of a run, each a tool call, do not exceed the cap.
C9_Bounded ==
    /\ iterations <= max_iterations
    /\ Len(tool_calls) = iterations

\* A run that is over has a response or an error; one under way has none.
C9_Ends ==
    /\ runPc = "done" => outcome \in {"response", "error"}
    /\ runPc \in {"model", "tool"} => outcome = "none"

\* C9: a single agent run performs at most max_iterations tool-calling
\* iterations and then stops, so every agent run terminates with a
\* response or an error.
C9_RunTerminates ==
    /\ []C9_Bounded
    /\ []C9_Ends
    /\ (runPc \in {"model", "tool"}) ~> (runPc = "done")

\* A run of an agent with a cap above one has used all its iterations and
\* is over.
C9_Witness ==
    /\ runPc = "done"
    /\ max_iterations > 1
    /\ iterations = max_iterations
    /\ outcome \in {"response", "error"}

-----------------------------------------------------------------------------
(***************************************************************************)
(* Part E.  The rate limiter.                                              *)
(*                                                                         *)
(* Each API key has a number of requests per window (100 a minute on the   *)
(* Free plan); every answer carries X-RateLimit-Limit,                     *)
(* X-RateLimit-Remaining and X-RateLimit-Reset, and a request over the     *)
(* limit is answered 429 with retry-after.  The limiter is not in the      *)
(* source tree and is modelled from spec.md and the documented headers,    *)
(* as a fixed window.                                                      *)
(***************************************************************************)
RateLimit == 3
WindowLen == 2
MaxWindows == 2

Keys == {1, 2}

\* The window a tick belongs to.
Window(t) == t \div WindowLen

\* X-RateLimit-Remaining for a key.
Remaining(k) == RateLimit - used[k]

\* The ticks until the window of t ends.
RetryAfter(t) == (Window(t) + 1) * WindowLen - t

\* The mutant of Admit: one request more than the limit.
AdmitOffByOne(k) == used[k] <= RateLimit

\* Whether a request of the key is within the limit.
Admit(k) == used[k] < RateLimit

InitE ==
    /\ now = 0
    /\ used = [k \in Keys |-> 0]
    /\ lastKey = 0
    /\ lastStatus = 0
    /\ hdrRemaining = [k \in Keys |-> RateLimit]
    /\ hdrWindow = [k \in Keys |-> -1]
    /\ retry_after = 0

\* A request with the API key k is accepted and counted, or rejected.
ApiRequest(k) ==
    /\ lastKey' = k
    /\ hdrWindow' = [hdrWindow EXCEPT ![k] = Window(now)]
    /\ IF Admit(k)
       THEN /\ used' = [used EXCEPT ![k] = @ + 1]
            /\ lastStatus' = 200
            /\ retry_after' = 0
       ELSE /\ used' = used
            /\ lastStatus' = 429
            /\ retry_after' = RetryAfter(now)
    /\ hdrRemaining' = [hdrRemaining EXCEPT ![k] = RateLimit - used'[k]]
    /\ UNCHANGED now
    /\ OnlyE

\* Time passes; at the end of a window the counts start again.
Tick ==
    /\ now + 1 < WindowLen * MaxWindows
    /\ now' = now + 1
    /\ used' = IF Window(now + 1) # Window(now) THEN [k \in Keys |-> 0] ELSE used
    /\ UNCHANGED <<lastKey, lastStatus, hdrRemaining, hdrWindow, retry_after>>
    /\ OnlyE

NextE ==
    \/ \E k \in Keys : ApiRequest(k)
    \/ Tick

-----------------------------------------------------------------------------
(***************************************************************************)
(* Part E.  Claims.                                                        *)
(***************************************************************************)

\* The remaining value the previous answer of this window gave the key, or
\* the limit when this window has given it none.
PrevRemaining(k) ==
    IF hdrWindow[k] = Window(now) THEN hdrRemaining[k] ELSE RateLimit

\* An accepted request of a key lowers the key's header by exactly one.
C10_Decrement ==
    \A k \in Keys :
        (now' = now /\ used'[k] # used[k])
            => /\ lastStatus' = 200
               /\ hdrRemaining'[k] = PrevRemaining(k) - 1

\* A request of a key that has nothing left is rejected, with retry-after.
C10_RejectAtZero ==
    \A k \in Keys :
        (now' = now /\ lastKey' = k /\ Remaining(k) = 0 /\ varsE' # varsE)
            => /\ lastStatus' = 429
               /\ retry_after' > 0
               /\ used' = used

\* The remaining value is never below zero, in the header or in the count.
C10_NonNegative ==
    \A k \in Keys : hdrRemaining[k] >= 0 /\ Remaining(k) >= 0

\* C10: within one rate-limit window, each accepted request lowers the
\* remaining-requests value of the rate-limit headers by exactly one, the
\* value never goes below zero, and a request that arrives when it is zero
\* is rejected with a rate-limit error that carries retry-after.
C10_HeadersDecrement ==
    /\ [][C10_Decrement /\ C10_RejectAtZero]_vars
    /\ []C10_NonNegative

\* In a later window a key has used up its requests and was rejected,
\* while the other key has just had its first request accepted.
C10_Witness ==
    /\ now >= WindowLen
    /\ lastStatus = 429
    /\ retry_after > 0
    /\ hdrRemaining[lastKey] = 0
    /\ \E k \in Keys : hdrWindow[k] = Window(now) /\ hdrRemaining[k] = RateLimit - 1

-----------------------------------------------------------------------------
(***************************************************************************)
(* Part F.  The agent resource.                                            *)
(*                                                                         *)
(* POST, GET, PATCH and DELETE /v1/agents as the dashboard's client calls  *)
(* them (api.agents of _app.tsx).  The server's side is not in the source  *)
(* tree and is modelled from spec.md and the API reference: create fills   *)
(* in the defaults, assigns the id and stores the agent; get returns what  *)
(* is stored; update merges a partial body; delete removes the agent.      *)
(* The timestamps are left out.                                            *)
(***************************************************************************)
MaxAgents == 2

Absent == "absent"
Null == "null"

\* An optional list field of a body: left out, or given with a value.
LeftOut == {}
Given(x) == {x}
ValueOf(field) == CHOOSE x \in field : TRUE

ConfigKeys == {"temperature", "max_iterations"}

\* The configuration of an agent created without one (the values of the
\* user guide: temperature 0.7, in tenths, and 25 iterations).
DefaultConfig == [k \in ConfigKeys |-> IF k = "temperature" THEN 7 ELSE 25]

\* A partial configuration over the defaults.
MergeConfig(base, part) ==
    [k \in ConfigKeys |-> IF k \in DOMAIN part THEN part[k] ELSE base[k]]

NoConfig == [k \in {} |-> 0]

\* Valid bodies of POST /v1/agents (AgentCreate): only name is required.
CreatePayloads ==
    { [name |-> "Test Agent", system_prompt |-> Absent, config |-> NoConfig,
       tools |-> LeftOut, metadata |-> Absent],
      [name |-> "Test Agent", system_prompt |-> "Reply", config |-> NoConfig,
       tools |-> LeftOut, metadata |-> Absent],
      [name |-> "Support Bot", system_prompt |-> "Help",
       config |-> [k \in {"temperature"} |-> 5],
       tools |-> Given({"knowledge_base"}), metadata |-> "department"],
      [name |-> "Support Bot", system_prompt |-> "Help",
       config |-> [k \in ConfigKeys |-> IF k = "temperature" THEN 5 ELSE 10],
       tools |-> Given({"knowledge_base", "ticket_system"}), metadata |-> "priority"] }

\* Bodies of PATCH /v1/agents/{id} (Partial<AgentCreate>).
UpdatePayloads ==
    { [name |-> "Updated Agent Name", system_prompt |-> Absent,
       config |-> [k \in {"temperature"} |-> 5],
       tools |-> LeftOut, metadata |-> Absent],
      [name |-> Absent, system_prompt |-> Absent, config |-> NoConfig,
       tools |-> Given({}), metadata |-> "none"] }

NoAgent == [id |-> 0, name |-> Absent, system_prompt |-> Null,
            config |-> DefaultConfig, tools |-> {}, metadata |-> "none",
            status |-> "none"]

\* The agent POST /v1/agents makes of a body.
NewAgent(id, body) ==
    [id |-> id,
     name |-> body.name,
     system_prompt |-> IF body.system_prompt = Absent THEN Null
                       ELSE body.system_prompt,
     config |-> MergeConfig(DefaultConfig, body.config),
     tools |-> IF body.tools = LeftOut THEN {} ELSE ValueOf(body.tools),
     metadata |-> IF body.metadata = Absent THEN "none" ELSE body.metadata,
     status |-> "active"]

\* The agent PATCH /v1/agents/{id} makes of the stored one.
Patched(a, body) ==
    [a EXCEPT
       !.name = IF body.name = Absent THEN @ ELSE body.name,
       !.system_prompt = IF body.system_prompt = Absent THEN @
                         ELSE body.system_prompt,
       !.config = MergeConfig(@, body.config),
       !.tools = IF body.tools = LeftOut THEN @ ELSE ValueOf(body.tools),
       !.metadata = IF body.metadata = Absent THEN @ ELSE body.metadata]

\* Whether the store has an agent of this id.
HasAgent(id) == id \in 1..Len(agents) /\ agents[id].status # "none"

\* The mutant of GetAgent: answers with the agent created last.
GetAgentLatest(id) ==
    IF HasAgent(id) THEN [status |-> 200, agent |-> agents[Len(agents)]]
    ELSE [status |-> 404, agent |-> NoAgent]

\* GET /v1/agents/{id}
GetAgent(id) ==
    IF HasAgent(id) THEN [status |-> 200, agent |-> agents[id]]
    ELSE [status |-> 404, agent |-> NoAgent]

InitF ==
    /\ agents = << >>
    /\ created = << >>
    /\ touched = {}
    /\ fetched = [status |-> 0, agent |-> NoAgent]

\* api.agents.create
AgentsCreate ==
    /\ Len(agents) < MaxAgents
    /\ \E body \in CreatePayloads :
         LET a == NewAgent(Len(agents) + 1, body)
         IN  /\ agents' = Append(agents, a)
             /\ created' = Append(created, a)
    /\ UNCHANGED <<touched, fetched>>
    /\ OnlyF

\* api.agents.get
AgentsGet ==
    /\ \E id \in 1..MaxAgents : fetched' = GetAgent(id)
    /\ UNCHANGED <<agents, created, touched>>
    /\ OnlyF

\* api.agents.update
AgentsUpdate ==
    /\ \E id \in 1..Len(agents), body \in UpdatePayloads :
         /\ HasAgent(id)
         /\ agents' = [agents EXCEPT ![id] = Patched(@, body)]
         /\ touched' = touched \cup {id}
    /\ UNCHANGED <<created, fetched>>
    /\ OnlyF

\* api.agents.delete
AgentsDelete ==
    /\ \E id \in 1..Len(agents) :
         /\ HasAgent(id)
         /\ agents' = [agents EXCEPT ![id] = NoAgent]
         /\ touched' = touched \cup {id}
    /\ UNCHANGED <<created, fetched>>
    /\ OnlyF

NextF ==
    \/ AgentsCreate
    \/ AgentsGet
    \/ AgentsUpdate
    \/ AgentsDelete

-----------------------------------------------------------------------------
(***************************************************************************)
(* Part F.  Claims.                                                        *)
(***************************************************************************)

\* The fields the round trip compares.
RoundTripFields(a) ==
    <<a.id, a.name, a.system_prompt, a.config, a.tools, a.metadata>>

\* C11: for every valid create payload, POST /v1/agents followed by GET
\* /v1/agents/{id} with the returned id returns an agent whose id, name,
\* system_prompt, config, tools and metadata equal those of the create
\* response, provided no update or delete of that agent happened in
\* between.
C11_RoundTrip ==
    \A id \in 1..Len(created) :
        id \notin touched =>
            /\ GetAgent(id).status = 200
            /\ RoundTripFields(GetAgent(id).agent) = RoundTripFields(created[id])
            /\ (fetched.status = 200 /\ fetched.agent.id = id)
                  => RoundTripFields(fetched.agent) = RoundTripFields(created[id])

\* The second agent created was fetched untouched, after the first, made
\* from another body, had been updated.
C11_Witness ==
    /\ Len(created) = 2
    /\ 1 \in touched /\ 2 \notin touched
    /\ created[1].name # created[2].name
    /\ fetched.status = 200
    /\ fetched.agent.id = 2
    /\ fetched.agent.tools # {}

-----------------------------------------------------------------------------
(***************************************************************************)
(* Part G.  The dashboard's API client: request() of _app.tsx:83-105.      *)
(*                                                                         *)
(* A response is its HTTP status and its body.  The bodies are named by    *)
(* what they hold: text that is not JSON, the JSON literals null and a     *)
(* number, and JSON objects without detail, with an empty detail, with a   *)
(* text detail and with a list as detail (the validation errors of the     *)
(* API).                                                                   *)
(***************************************************************************)
Methods == {"GET", "POST", "PATCH", "DELETE"}

\* options.body: left out, an object, or the number 0.
RequestBodies == {"undefined", "object", "zero"}

\* _app.tsx:92: body ? JSON.stringify(body) : undefined
SentBody(body) == IF body = "object" THEN "json" ELSE "undefined"

Statuses == {200, 201, 204, 400, 401, 404, 422, 429, 500, 502}

ResponseBodies == {"not_json", "null", "number", "no_detail", "empty_detail",
                   "text_detail", "list_detail"}

\* response.ok
Ok(st) == st >= 200 /\ st <= 299

\* Whether response.json() resolves.
IsJson(body) == body # "not_json"

\* The detail property of a parsed body: its type and, as text, its value;
\* undefined when the value has no such property.
Detail(body) ==
    CASE body = "empty_detail" -> [type |-> "string", text |-> ""]
      [] body = "text_detail"  -> [type |-> "string", text |-> "Agent not found"]
      [] body = "list_detail"  -> [type |-> "array", text |-> "[object Object]"]
      [] OTHER                 -> [type |-> "undefined", text |-> "undefined"]

\* JavaScript's truthiness of a detail.
Truthy(d) == d.type = "array" \/ (d.type = "string" /\ d.text # "")

NoResult == [kind |-> "none", status |-> 0, message |-> "", data |-> "none"]

\* The mutant of request: a failed response is parsed and returned.
requestNoCheck(st, body) ==
    IF st = 204 THEN [NoResult EXCEPT !.kind = "undefined"]
    ELSE IF ~IsJson(body) THEN [NoResult EXCEPT !.kind = "SyntaxError"]
    ELSE [NoResult EXCEPT !.kind = "data", !.data = body]

\* _app.tsx:95-104: what request() ends with for a response.  The parsed
\* body of a failed response is replaced by {detail: 'Request failed'}
\* when json() rejects; reading .detail of null throws a TypeError; the
\* Error constructor turns the message into text.
request(st, body) ==
    IF ~Ok(st)
    THEN IF ~IsJson(body)
         THEN [NoResult EXCEPT !.kind = "ApiError", !.status = st,
                               !.message = "Request failed"]
         ELSE IF body = "null"
         THEN [NoResult EXCEPT !.kind = "TypeError"]
         ELSE [NoResult EXCEPT !.kind = "ApiError", !.status = st,
                               !.message = IF Truthy(Detail(body))
                                           THEN Detail(body).text
                                           ELSE "Request failed"]
    ELSE IF st = 204 THEN [NoResult EXCEPT !.kind = "undefined"]
    ELSE IF ~IsJson(body) THEN [NoResult EXCEPT !.kind = "SyntaxError"]
    ELSE [NoResult EXCEPT !.kind = "data", !.data = body]

InitG ==
    /\ fetchPc = "idle"
    /\ fetchMethod = "GET"
    /\ fetchBody = "undefined"
    /\ respStatus = 0
    /\ respBody = "not_json"
    /\ result = NoResult

\* _app.tsx:86-93: request() calls fetch.
CallFetch ==
    /\ fetchPc = "idle"
    /\ \E method \in Methods, body \in RequestBodies :
         /\ fetchMethod' = method
         /\ fetchBody' = SentBody(body)
    /\ fetchPc' = "sent"
    /\ respStatus' = 0
    /\ respBody' = "not_json"
    /\ result' = NoResult
    /\ OnlyG

\* The response arrives and request() settles.
Receive ==
    /\ fetchPc = "sent"
    /\ \E st \in Statuses, body \in ResponseBodies :
         /\ respStatus' = st
         /\ respBody' = body
         /\ result' = request(st, body)
    /\ fetchPc' = "settled"
    /\ UNCHANGED <<fetchMethod, fetchBody>>
    /\ OnlyG

\* fetch rejects (no response): request() rejects with fetch's TypeError.
FetchFails ==
    /\ fetchPc = "sent"
    /\ result' = [NoResult EXCEPT !.kind = "TypeError"]
    /\ fetchPc' = "settled"
    /\ UNCHANGED <<fetchMethod, fetchBody, respStatus, respBody>>
    /\ OnlyG

\* The caller goes on to its next request.
Settled ==
    /\ fetchPc = "settled"
    /\ fetchPc' = "idle"
    /\ UNCHANGED <<fetchMethod, fetchBody, respStatus, respBody, result>>
    /\ OnlyG

NextG ==
    \/ CallFetch
    \/ Receive
    \/ FetchFails
    \/ Settled

-----------------------------------------------------------------------------
(***************************************************************************)
(* Part G.  Claims.                                                        *)
(***************************************************************************)

\* A response has been received and request() has settled.
Received == fetchPc = "settled" /\ respStatus # 0

\* C12: for every response received by request(): a non-2xx response
\* always raises ApiError whose status is the HTTP status and whose message
\* is the body's detail field, or 'Request failed' when the body is not
\* JSON or has no detail; a 204 response yields undefined; a failed
\* response is never returned to the caller as data.
C12_ApiError ==
    Received =>
        /\ ~Ok(respStatus) =>
              /\ result.kind = "ApiError"
              /\ result.status = respStatus
              /\ result.message =
                    IF IsJson(respBody) /\ Detail(respBody).type = "string"
                    THEN Detail(respBody).text
                    ELSE "Request failed"
        /\ respStatus = 204 => result.kind = "undefined"
        /\ result.kind = "data" => Ok(respStatus)

\* What does hold: a failed response is never returned as data, 204
\* yields undefined, and an ApiError carries the HTTP status.
C12_NeverData ==
    Received =>
        /\ ~Ok(respStatus) => result.kind \in {"ApiError", "TypeError"}
        /\ result.kind = "ApiError" => (~Ok(respStatus) /\ result.status = respStatus)
        /\ respStatus = 204 => result.kind = "undefined"
        /\ result.kind = "data" => Ok(respStatus)

-----------------------------------------------------------------------------
(***************************************************************************)
(* Part H.  The API keys tab of the settings page                          *)
(* (settings/index.tsx).                                                   *)
(*                                                                         *)
(* A key text is the id of its key and whether it is the full secret or    *)
(* what the API gives of it afterwards.  The API's side is not in the      *)
(* source tree; the API reference has the key returned only by the         *)
(* creation, so the list of GET /v1/auth/api-keys is modelled without the  *)
(* full secrets.                                                           *)
(***************************************************************************)
MaxKeys == 2

NoKeyText == [id |-> 0, text |-> "none"]
FullSecret(id) == [id |-> id, text |-> "full"]
Masked(id) == [id |-> id, text |-> "masked"]

\* POST /v1/auth/api-keys: the new key, with its secret.
CreatedKey(id) == [id |-> id, key |-> FullSecret(id)]

\* GET /v1/auth/api-keys: the keys of the user, without their secrets.
ListedKeys == [i \in 1..Len(keyIds) |-> [id |-> keyIds[i], key |-> Masked(keyIds[i])]]

\* settings/index.tsx:686: {apiKey.key.slice(0, 12)}...
Rendered(k) == Masked(k.id)

\* The sequence without its i-th element.
Without(seq, i) == SubSeq(seq, 1, i - 1) \o SubSeq(seq, i + 1, Len(seq))

\* The page as it mounts.
Mounted ==
    /\ activeTab = "profile"
    /\ apiKeys = << >>
    /\ showCreateKey = FALSE
    /\ newKeyName = ""
    /\ newlyCreatedKey = NoKeyText
    /\ copiedKey = NoKeyText

InitH ==
    /\ keyIds = << >>
    /\ keyCount = 0
    /\ clipboard = NoKeyText
    /\ Mounted

\* A tab is selected; the effect of settings/index.tsx:447-451 fetches
\* the keys when it is the API keys tab (fetchApiKeys, 453-468).
SelectTab ==
    /\ \E tab \in {"profile", "api-keys", "security"} :
         /\ tab # activeTab
         /\ activeTab' = tab
         /\ apiKeys' = IF tab = "api-keys" THEN ListedKeys ELSE apiKeys
    /\ UNCHANGED <<keyIds, keyCount, clipboard, showCreateKey, newKeyName,
                   newlyCreatedKey, copiedKey>>
    /\ OnlyH

\* The Create Key button, the name field and the Cancel button of the modal.
EditCreateKey ==
    /\ activeTab = "api-keys"
    /\ \/ /\ ~showCreateKey
          /\ showCreateKey' = TRUE
          /\ UNCHANGED newKeyName
       \/ /\ showCreateKey
          /\ \E n \in {"", "My API Key"} : n # newKeyName /\ newKeyName' = n
          /\ UNCHANGED showCreateKey
       \/ /\ showCreateKey
          /\ showCreateKey' = FALSE
          /\ UNCHANGED newKeyName
    /\ UNCHANGED <<keyIds, keyCount, clipboard, activeTab, apiKeys,
                   newlyCreatedKey, copiedKey>>
    /\ OnlyH

\* settings/index.tsx:493-517, the answer being OK.
handleCreateApiKey ==
    /\ activeTab = "api-keys"
    /\ showCreateKey
    /\ newKeyName # ""
    /\ keyCount < MaxKeys
    /\ keyCount' = keyCount + 1
    /\ keyIds' = Append(keyIds, keyCount + 1)
    /\ apiKeys' = Append(apiKeys, CreatedKey(keyCount + 1))
    /\ newlyCreatedKey' = CreatedKey(keyCount + 1).key
    /\ newKeyName' = ""
    /\ UNCHANGED <<clipboard, activeTab, showCreateKey, copiedKey>>
    /\ OnlyH

\* settings/index.tsx:493-517, the answer not being OK or fetch failing.
handleCreateApiKeyFails ==
    /\ activeTab = "api-keys"
    /\ showCreateKey
    /\ newKeyName # ""
    /\ showCreateKey' = FALSE
    /\ UNCHANGED <<keyIds, keyCount, clipboard, activeTab, apiKeys,
                   newKeyName, newlyCreatedKey, copiedKey>>
    /\ OnlyH

\* settings/index.tsx:519-533, confirmed and answered OK.
handleDeleteApiKey ==
    /\ activeTab = "api-keys"
    /\ \E i \in 1..Len(apiKeys) :
         /\ apiKeys' = Without(apiKeys, i)
         /\ keyIds' = SelectSeq(keyIds, LAMBDA id : id # apiKeys[i].id)
    /\ UNCHANGED <<keyCount, clipboard, activeTab, showCreateKey, newKeyName,
                   newlyCreatedKey, copiedKey>>
    /\ OnlyH

\* settings/index.tsx:535-539, called by the copy button of a list entry
\* (689-690) with apiKey.key.
handleCopyKey ==
    /\ activeTab = "api-keys"
    /\ \E i \in 1..Len(apiKeys) :
         /\ clipboard' = apiKeys[i].key
         /\ copiedKey' = apiKeys[i].key
    /\ UNCHANGED <<keyIds, keyCount, activeTab, apiKeys, showCreateKey,
                   newKeyName, newlyCreatedKey>>
    /\ OnlyH

\* The page is loaded again, in this session or a later one.
Reload ==
    /\ activeTab' = "profile"
    /\ apiKeys' = << >>
    /\ showCreateKey' = FALSE
    /\ newKeyName' = ""
    /\ newlyCreatedKey' = NoKeyText
    /\ copiedKey' = NoKeyText
    /\ clipboard' = NoKeyText
    /\ UNCHANGED <<keyIds, keyCount>>
    /\ OnlyH

NextH ==
    \/ SelectTab
    \/ EditCreateKey
    \/ handleCreateApiKey
    \/ handleCreateApiKeyFails
    \/ handleDeleteApiKey
    \/ handleCopyKey
    \/ Reload

-----------------------------------------------------------------------------
(***************************************************************************)
(* Part H.  Claims.                                                        *)
(***************************************************************************)

\* C13: the secret of an API key is shown exactly once, at creation: after
\* the creation step, the settings page exposes the full secret neither in
\* the key list nor through the copy action, in the same session or a
\* later one.
C13_SecretOnce ==
    /\ \A i \in 1..Len(apiKeys) : Rendered(apiKeys[i]).text # "full"
    /\ clipboard.text # "full"

\* What does hold: the list never renders a full secret, and a list that
\* was fetched holds none, so after a reload no copy gives one.
C13_ListRender ==
    /\ \A i \in 1..Len(apiKeys) : Rendered(apiKeys[i]).text # "full"
    /\ \A i \in 1..Len(apiKeys) :
         apiKeys[i].key.text = "full" => newlyCreatedKey # NoKeyText

-----------------------------------------------------------------------------
(***************************************************************************)
(* Part I.  The redirect callback of the NextAuth options (part_009).      *)
(*                                                                         *)
(* A URL is a sequence of tokens, its text their concatenation: an origin  *)
(* (or none, for a relative URL) and what follows it.  No origin token is  *)
(* the beginning of another, so a URL's text starts with a base URL        *)
(* exactly when its first token is that base URL.  An origin with a port   *)
(* is not followed by more of a host name.                                 *)
(***************************************************************************)
MaxUrlTail == 2

AppOrigin == "https://app.mimoai.co"
LocalOrigin == "http://localhost:3000"
AlbOrigin == "https://gagiteck-123.us-east-1.elb.amazonaws.com"
OtherOrigin == "https://evil.example"

Origins == {AppOrigin, LocalOrigin, AlbOrigin, OtherOrigin}

\* What can follow: the beginning of a path or query, or more of the
\* authority (a longer host name, or a host after user information).
PathTails == {"/dashboard", "/auth/signin", "//evil.example", "?next=1"}
AuthorityTails == {".evil.example", "@evil.example"}
Tails == PathTails \cup AuthorityTails

TailSeqs == UNION {[1..n -> Tails] : n \in 0..MaxUrlTail}

\* What can follow an origin.
TailsAfter(o) ==
    {t \in TailSeqs : (o = LocalOrigin /\ t # << >>) => t[1] # ".evil.example"}

\* The URLs the callback is called with: absolute ones, and relative ones
\* beginning with a path.
Urls == UNION {{<<o>> \o t : t \in TailsAfter(o)} : o \in Origins}
            \cup {t \in TailSeqs : t # << >> /\ t[1] \in PathTails}

\* The values of an environment variable holding a URL; << >> when unset.
EnvUrls == {<< >>, <<AppOrigin>>, <<AlbOrigin>>, <<LocalOrigin>>}

\* part_009:9-12
isAlbUrl(url) == url # << >> /\ \E i \in 1..Len(url) : url[i] = AlbOrigin

\* part_009:15-31
getBaseUrl(nextauthUrl, appUrl, node) ==
    IF nextauthUrl # << >> /\ ~isAlbUrl(nextauthUrl) THEN nextauthUrl
    ELSE IF appUrl # << >> /\ ~isAlbUrl(appUrl) THEN appUrl
    ELSE IF node = "production" THEN <<AppOrigin>>
    ELSE <<LocalOrigin>>

\* url.startsWith("/")
IsRelative(url) == url # << >> /\ url[1] \in {"/dashboard", "/auth/signin", "//evil.example"}

\* The mutant of redirect: the same-domain test is left out.
redirectAnyUrl(url, base) ==
    IF IsRelative(url) THEN base \o url ELSE url

\* part_009:103-117
redirect(url, base) ==
    IF IsRelative(url) THEN base \o url
    ELSE IF StartsWith(url, base) THEN url
    ELSE base \o <<"/auth/signin">>

\* Whether a URL is on the domain of the base URL: its origin is the base
\* URL, that is, the base URL is followed by nothing or by a path or query.
OnDomain(url, base) ==
    /\ StartsWith(url, base)
    /\ Len(url) > Len(base) => url[Len(base) + 1] \in PathTails

InitI ==
    /\ NEXTAUTH_URL \in EnvUrls
    /\ NEXT_PUBLIC_APP_URL \in EnvUrls
    /\ NODE_ENV \in {"production", "development"}
    /\ redirectUrl = << >>
    /\ redirectTo = << >>

\* NextAuth calls the redirect callback with a callback URL.
RedirectCallback ==
    /\ redirectTo = << >>
    /\ \E url \in Urls :
         /\ redirectUrl' = url
         /\ redirectTo' = redirect(url, getBaseUrl(NEXTAUTH_URL, NEXT_PUBLIC_APP_URL, NODE_ENV))
    /\ UNCHANGED <<NEXTAUTH_URL, NEXT_PUBLIC_APP_URL, NODE_ENV>>
    /\ OnlyI

\* NextAuth sends the redirect.
RedirectSent ==
    /\ redirectTo # << >>
    /\ redirectUrl' = << >>
    /\ redirectTo' = << >>
    /\ UNCHANGED <<NEXTAUTH_URL, NEXT_PUBLIC_APP_URL, NODE_ENV>>
    /\ OnlyI

NextI ==
    \/ RedirectCallback
    \/ RedirectSent

-----------------------------------------------------------------------------
(***************************************************************************)
(* Part I.  Claims.                                                        *)
(***************************************************************************)

BaseUrl == getBaseUrl(NEXTAUTH_URL, NEXT_PUBLIC_APP_URL, NODE_ENV)

\* The callback has been called.
Redirected == redirectTo # << >>

\* C14: the redirect callback only ever returns a URL on the application's
\* own domain (the base URL of getBaseUrl, which is never an ALB/ELB URL):
\* a relative URL is resolved against the base URL, a URL on the same
\* domain is returned unchanged, and every other URL is replaced by
\* <base>/auth/signin.
C14_OwnDomain ==
    /\ ~isAlbUrl(BaseUrl)
    /\ Redirected =>
          /\ OnDomain(redirectTo, BaseUrl)
          /\ IsRelative(redirectUrl) => redirectTo = BaseUrl \o redirectUrl
          /\ OnDomain(redirectUrl, BaseUrl) => redirectTo = redirectUrl
          /\ (~IsRelative(redirectUrl) /\ ~OnDomain(redirectUrl, BaseUrl))
                => redirectTo = BaseUrl \o <<"/auth/signin">>

\* What does hold: the base URL is never an ALB/ELB URL, a relative URL is
\* resolved against it, a URL on the same domain is returned unchanged, and
\* a URL whose text does not begin with the base URL is replaced.
C14_PrefixOnly ==
    /\ ~isAlbUrl(BaseUrl)
    /\ Redirected =>
          /\ StartsWith(redirectTo, BaseUrl)
          /\ IsRelative(redirectUrl) => redirectTo = BaseUrl \o redirectUrl
          /\ OnDomain(redirectUrl, BaseUrl) => redirectTo = redirectUrl
          /\ (~IsRelative(redirectUrl) /\ ~StartsWith(redirectUrl, BaseUrl))
                => redirectTo = BaseUrl \o <<"/auth/signin">>

-----------------------------------------------------------------------------
(***************************************************************************)
(* Part J.  Credentials sign-in: authorize and the jwt and session         *)
(* callbacks of the NextAuth options (part_009 and                         *)
(* pages/api/auth/[...nextauth].ts), and the Authorization header of the   *)
(* settings page's requests.  NextAuth creates a session when authorize    *)
(* returns a user and none when it returns null.                           *)
(***************************************************************************)
Undefined == "undefined"

AuthBuilds == {"part_009", "nextauth_ts"}

Emails == {"admin@gagiteck.com", "user@example.com", Undefined}
Passwords == {"admin123", "secret", Undefined}

\* How a call of the API ends: answered OK, answered with an error status,
\* or fetch or json() throws.
Answers == {"ok", "rejected", "throws"}

\* The access_token of an OK answer of /v1/auth/login.
AccessTokens == {"jwt_1", "jwt_2"}

Null_User == [id |-> "null", role |-> Undefined, accessToken |-> Undefined]

\* part_009:49-52
IsDemo(email, password) == email = "admin@gagiteck.com" /\ password = "admin123"

\* The mutant of authorize: the answer of /v1/auth/me is not looked at.
authorizeWithoutMe(b, email, password, login, me, access_token) ==
    IF IsDemo(email, password)
    THEN [id |-> "1", role |-> "admin", accessToken |-> Undefined]
    ELSE IF b = "part_009" /\ login = "ok"
    THEN [id |-> "user", role |-> "user", accessToken |-> access_token]
    ELSE Null_User

\* part_009:47-94 and [...nextauth].ts:19-40: the user, or null.
authorize(b, email, password, login, me, access_token) ==
    IF IsDemo(email, password)
    THEN [id |-> "1", role |-> "admin", accessToken |-> Undefined]
    ELSE IF b = "part_009" /\ login = "ok" /\ me = "ok"
    THEN [id |-> "user", role |-> "user", accessToken |-> access_token]
    ELSE Null_User

NoToken == [role |-> Undefined, accessToken |-> Undefined]

\* part_009:118-124 and [...nextauth].ts:47-52: callbacks.jwt at sign-in.
jwt(b, token, user) ==
    IF b = "part_009"
    THEN [token EXCEPT !.role = user.role, !.accessToken = user.accessToken]
    ELSE [token EXCEPT !.role = user.role]

NoSession == [exists |-> FALSE, accessToken |-> Undefined,
              user |-> [role |-> Undefined, accessToken |-> Undefined]]

\* The session NextAuth hands to callbacks.session: a user, no other field
\* of ours.
DefaultSession == [NoSession EXCEPT !.exists = TRUE]

\* part_009:125-131 and [...nextauth].ts:53-58: callbacks.session.
session(b, s, token) ==
    IF b = "part_009"
    THEN [s EXCEPT !.user.role = token.role,
                   !.user.accessToken = token.accessToken]
    ELSE [s EXCEPT !.user.role = token.role]

NoHeader == <<>>

\* The mutant of getAuthHeader: reads the token where callbacks.session
\* puts it.
getAuthHeaderOfUser(s) ==
    IF s.exists /\ s.user.accessToken # Undefined
    THEN <<"Bearer", s.user.accessToken>> ELSE NoHeader

\* settings/index.tsx:434-437
getAuthHeader(s) ==
    IF s.exists /\ s.accessToken # Undefined
    THEN <<"Bearer", s.accessToken>> ELSE NoHeader

\* The requests of the settings page: fetchApiKeys, handleSaveProfile,
\* handleCreateApiKey, handleDeleteApiKey, handleChangePassword.
SettingsRequests ==
    {<<"GET", "/v1/auth/api-keys">>, <<"PATCH", "/v1/auth/me">>,
     <<"POST", "/v1/auth/api-keys">>, <<"DELETE", "/v1/auth/api-keys/id">>}

InitJ ==
    /\ authBuild \in AuthBuilds
    /\ authPc = "idle"
    /\ credentials = [email |-> Undefined, password |-> Undefined]
    /\ loginAnswer = "not_called"
    /\ meAnswer = "not_called"
    /\ loginToken = Undefined
    /\ authUser = Null_User
    /\ authSession = NoSession
    /\ sentRequest = <<>>
    /\ sentAuth = NoHeader

\* A credentials sign-in: authorize, and on a user the jwt and session
\* callbacks.
SignIn ==
    /\ authPc = "idle"
    /\ \E email \in Emails, password \in Passwords, login \in Answers,
          me \in Answers, tok \in AccessTokens :
         LET calls == authBuild = "part_009" /\ ~IsDemo(email, password)
             user == authorize(authBuild, email, password, login, me, tok)
         IN  /\ credentials' = [email |-> email, password |-> password]
             /\ loginAnswer' = IF calls THEN login ELSE "not_called"
             /\ meAnswer' = IF calls /\ login = "ok" THEN me ELSE "not_called"
             /\ loginToken' = IF calls /\ login = "ok" THEN tok ELSE Undefined
             /\ authUser' = user
             /\ authSession' = IF user = Null_User THEN NoSession
                               ELSE session(authBuild, DefaultSession,
                                            jwt(authBuild, NoToken, user))
             /\ authPc' = IF user = Null_User THEN "rejected" ELSE "signedIn"
    /\ UNCHANGED <<authBuild, sentRequest, sentAuth>>
    /\ OnlyJ

\* The settings page sends one of its requests.
SettingsRequest ==
    /\ authPc = "signedIn"
    /\ \E r \in SettingsRequests : sentRequest' = r
    /\ sentAuth' = getAuthHeader(authSession)
    /\ UNCHANGED <<authBuild, authPc, credentials, loginAnswer, meAnswer,
                   loginToken, authUser, authSession>>
    /\ OnlyJ

\* Sign-out, or back to the sign-in form after a rejection.
SignOut ==
    /\ authPc # "idle"
    /\ authPc' = "idle"
    /\ credentials' = [email |-> Undefined, password |-> Undefined]
    /\ loginAnswer' = "not_called"
    /\ meAnswer' = "not_called"
    /\ loginToken' = Undefined
    /\ authUser' = Null_User
    /\ authSession' = NoSession
    /\ sentRequest' = <<>>
    /\ sentAuth' = NoHeader
    /\ UNCHANGED authBuild
    /\ OnlyJ

NextJ ==
    \/ SignIn
    \/ SettingsRequest
    \/ SignOut

-----------------------------------------------------------------------------
(***************************************************************************)
(* Part J.  Claims.                                                        *)
(***************************************************************************)

\* The API accepted the sign-in: login and me both answered OK.
ApiAccepted == loginAnswer = "ok" /\ meAnswer = "ok"

\* C15: the credentials authorize step returns a user only for the
\* built-in demo credentials or when both POST /v1/auth/login and GET
\* /v1/auth/me answer OK for the submitted email and password; in every
\* other case, including a rejected login, a failed /me call and a thrown
\* network error, it returns null and no session is created.
C15_AuthorizeOnly ==
    authPc # "idle" =>
        /\ authUser # Null_User
              => (IsDemo(credentials.email, credentials.password) \/ ApiAccepted)
        /\ ~(IsDemo(credentials.email, credentials.password) \/ ApiAccepted)
              => (authUser = Null_User /\ ~authSession.exists /\ authPc = "rejected")
        /\ authSession.exists <=> authUser # Null_User

\* A sign-in whose login was accepted and whose /me call failed was
\* rejected.
C15_Witness ==
    /\ authPc = "rejected"
    /\ loginAnswer = "ok"
    /\ meAnswer \in {"rejected", "throws"}
    /\ authUser = Null_User
    /\ ~authSession.exists

\* C16: after a credentials sign-in that the API accepted, the access
\* token returned by /v1/auth/login is carried through the jwt and session
\* callbacks, and every request the settings page sends to /v1/auth/me and
\* /v1/auth/api-keys has the header Authorization: Bearer <that token>.
C16_BearerHeader ==
    (authPc = "signedIn" /\ ApiAccepted) =>
        /\ authSession.user.accessToken = loginToken
        /\ sentRequest # <<>> => sentAuth = <<"Bearer", loginToken>>

\* What does hold: the token is carried to session.user.accessToken.
C16_TokenCarried ==
    (authPc = "signedIn" /\ ApiAccepted) =>
        /\ loginToken \in AccessTokens
        /\ authSession.user.accessToken = loginToken

-----------------------------------------------------------------------------
(***************************************************************************)
(* Part K.  The password checks of the signup form (auth/signup.tsx,       *)
(* handleSubmit) and of the change-password form (settings/index.tsx,      *)
(* handleChangePassword).                                                  *)
(***************************************************************************)
MaxRequests == 2

MinPasswordLength == 8

\* What a password field can hold: texts of length 0, 7, 8, 8 and 9.
FieldTexts == {"", "1234567", "12345678", "abcdefgh", "123456789"}

NoError == ""
Mismatch == "Passwords do not match"
TooShortText == "Password must be at least 8 characters"
ServerDetail == "detail of the answer"
SignupFailed == "Failed to create account"
UpdateFailed == "Failed to update password"
NetworkError == "Network error. Please try again."

\* The mutant of TooShort: texts of length 7 pass.
TooShortOffByOne(p) == Len(p) < MinPasswordLength - 1

\* signup.tsx:33 and settings/index.tsx:549: password.length < 8
TooShort(p) == Len(p) < MinPasswordLength

\* The error message of the two checks, in the order of the code.
CheckPasswords(p, c) ==
    IF p # c THEN Mismatch
    ELSE IF TooShort(p) THEN TooShortText
    ELSE NoError

\* The two forms are on two pages; leaving a page discards its state.
FormPages == {"/auth/signup", "/settings"}

\* How the API call ends: OK, an error status with or without a detail,
\* or a thrown error.
FormAnswers == {"ok", "detail", "no_detail", "throws"}

InitK ==
    /\ formPage \in FormPages
    /\ suPassword = ""
    /\ suConfirm = ""
    /\ isLoading = FALSE
    /\ suError = NoError
    /\ success = FALSE
    /\ suPc = "idle"
    /\ suSent = 0
    /\ newPassword = ""
    /\ confirmPassword = ""
    /\ passwordError = NoError
    /\ passwordSuccess = FALSE
    /\ cpPc = "idle"
    /\ cpSent = 0

varsSignup == <<suPassword, suConfirm, isLoading, suError, success, suPc, suSent>>
varsChange == <<newPassword, confirmPassword, passwordError, passwordSuccess,
                cpPc, cpSent>>

\* The browser goes to the other page: both components start from their
\* useState values; the requests already sent stay sent.
OpenForm ==
    /\ \E p \in FormPages \ {formPage} : formPage' = p
    /\ suPassword' = ""
    /\ suConfirm' = ""
    /\ isLoading' = FALSE
    /\ suError' = NoError
    /\ success' = FALSE
    /\ suPc' = "idle"
    /\ newPassword' = ""
    /\ confirmPassword' = ""
    /\ passwordError' = NoError
    /\ passwordSuccess' = FALSE
    /\ cpPc' = "idle"
    /\ UNCHANGED <<suSent, cpSent>>
    /\ OnlyK

\* The user types into the password fields of the signup form.
EditSignup ==
    /\ formPage = "/auth/signup"
    /\ suPc = "idle"
    /\ ~success
    /\ \E p \in FieldTexts, c \in FieldTexts :
         /\ <<p, c>> # <<suPassword, suConfirm>>
         /\ suPassword' = p
         /\ suConfirm' = c
    /\ UNCHANGED <<isLoading, suError, success, suPc, suSent>>
    /\ UNCHANGED varsChange
    /\ UNCHANGED formPage
    /\ OnlyK

\* signup.tsx:20-72 up to the await of fetch.
handleSubmit ==
    /\ formPage = "/auth/signup"
    /\ suPc = "idle"
    /\ ~isLoading
    /\ ~success
    /\ suSent < MaxRequests
    /\ LET e == CheckPasswords(suPassword, suConfirm)
       IN  IF e # NoError
           THEN /\ suError' = e
                /\ isLoading' = FALSE
                /\ UNCHANGED <<suPc, suSent>>
           ELSE /\ suError' = NoError
                /\ isLoading' = TRUE
                /\ suPc' = "waiting"
                /\ suSent' = suSent + 1
    /\ UNCHANGED <<suPassword, suConfirm, success>>
    /\ UNCHANGED varsChange
    /\ UNCHANGED formPage
    /\ OnlyK

\* signup.tsx:53-71: the answer of POST /v1/auth/signup.
SignupAnswer ==
    /\ formPage = "/auth/signup"
    /\ suPc = "waiting"
    /\ \E a \in FormAnswers :
         IF a = "ok"
         THEN /\ success' = TRUE
              /\ UNCHANGED <<suError, isLoading>>
         ELSE /\ suError' = CASE a = "detail" -> ServerDetail
                              [] a = "no_detail" -> SignupFailed
                              [] OTHER -> NetworkError
              /\ isLoading' = FALSE
              /\ UNCHANGED success
    /\ suPc' = "idle"
    /\ UNCHANGED <<suPassword, suConfirm, suSent>>
    /\ UNCHANGED varsChange
    /\ UNCHANGED formPage
    /\ OnlyK

\* The user types into the fields of the change-password form.
EditChangePassword ==
    /\ formPage = "/settings"
    /\ cpPc = "idle"
    /\ \E p \in FieldTexts, c \in FieldTexts :
         /\ <<p, c>> # <<newPassword, confirmPassword>>
         /\ newPassword' = p
         /\ confirmPassword' = c
    /\ UNCHANGED <<passwordError, passwordSuccess, cpPc, cpSent>>
    /\ UNCHANGED varsSignup
    /\ UNCHANGED formPage
    /\ OnlyK

\* settings/index.tsx:541-558 up to the await of fetch.
handleChangePassword ==
    /\ formPage = "/settings"
    /\ cpPc = "idle"
    /\ cpSent < MaxRequests
    /\ LET e == CheckPasswords(newPassword, confirmPassword)
       IN  /\ passwordError' = e
           /\ passwordSuccess' = FALSE
           /\ IF e # NoError
              THEN UNCHANGED <<cpPc, cpSent>>
              ELSE /\ cpPc' = "waiting"
                   /\ cpSent' = cpSent + 1
    /\ UNCHANGED <<newPassword, confirmPassword>>
    /\ UNCHANGED varsSignup
    /\ UNCHANGED formPage
    /\ OnlyK

\* settings/index.tsx:559-572: the answer of PATCH /v1/auth/me.
ChangePasswordAnswer ==
    /\ formPage = "/settings"
    /\ cpPc = "waiting"
    /\ \E a \in FormAnswers :
         IF a = "ok"
         THEN /\ passwordSuccess' = TRUE
              /\ newPassword' = ""
              /\ confirmPassword' = ""
              /\ UNCHANGED passwordError
         ELSE /\ passwordError' = CASE a = "detail" -> ServerDetail
                                    [] a = "no_detail" -> UpdateFailed
                                    [] OTHER -> NetworkError
              /\ UNCHANGED <<passwordSuccess, newPassword, confirmPassword>>
    /\ cpPc' = "idle"
    /\ UNCHANGED cpSent
    /\ UNCHANGED varsSignup
    /\ UNCHANGED formPage
    /\ OnlyK

NextK ==
    \/ OpenForm
    \/ EditSignup
    \/ handleSubmit
    \/ SignupAnswer
    \/ EditChangePassword
    \/ handleChangePassword
    \/ ChangePasswordAnswer

-----------------------------------------------------------------------------
(***************************************************************************)
(* Part K.  Claims.                                                        *)
(***************************************************************************)

\* The two checks of the claim, on the texts themselves.
Acceptable(p, c) == p = c /\ Len(p) >= 8

\* C17: in the signup form and in the change-password form, when the
\* password and its confirmation differ or the password is shorter than 8
\* characters, an error message is set, no request is sent to the API, and
\* the form is left usable again (signup's isLoading is false); a request
\* is sent only when both checks pass.
C17_Validation ==
    [][ /\ (handleSubmit /\ ~Acceptable(suPassword, suConfirm))
            => (suError' # NoError /\ suSent' = suSent /\ ~isLoading'
                /\ suPc' = "idle")
        /\ (handleChangePassword /\ ~Acceptable(newPassword, confirmPassword))
            => (passwordError' # NoError /\ cpSent' = cpSent /\ cpPc' = "idle")
        /\ suSent' # suSent => Acceptable(suPassword, suConfirm)
        /\ cpSent' # cpSent => Acceptable(newPassword, confirmPassword) ]_vars

\* After a signup that was sent, a change of password was refused for a
\* password of 7 characters and sent nothing.
C17_Witness ==
    /\ formPage = "/settings"
    /\ newPassword = "1234567"
    /\ confirmPassword = "1234567"
    /\ passwordError = TooShortText
    /\ cpPc = "idle"
    /\ cpSent = 0
    /\ suSent = 1

-----------------------------------------------------------------------------
(***************************************************************************)
(* Part L.  The client-side RateLimiter of docs/DEVELOPER.md, used by a    *)
(* single caller.  Time is counted in whole seconds; time.sleep(d) returns *)
(* exactly d seconds later.  acquire() runs from its call to its return    *)
(* in one step, the sleep included, since nobody else touches the deque.   *)
(***************************************************************************)
MaxMaxRequests == 2
MaxWindowSeconds == 2
MaxTime == 6

RECURSIVE DropOld(_, _)
\* DEVELOPER.md:572-574: while requests and requests[0] < limit: popleft()
DropOld(q, limit) ==
    IF q # << >> /\ Head(q) < limit THEN DropOld(Tail(q), limit) ELSE q

\* DEVELOPER.md:576: whether acquire() has to sleep.
Full(q) == Len(q) >= max_requests

\* DEVELOPER.md:578: how long.
SleepTime(q, t_now) == Head(q) + window_seconds - t_now

\* The mutant of Stamp: the time after the sleep is recorded.
StampAtReturn(t_now, wake) == wake

\* DEVELOPER.md:570, 582: the time acquire() appends is the time it read
\* at its start.
Stamp(t_now, wake) == t_now

InitL ==
    /\ max_requests \in 1..MaxMaxRequests
    /\ window_seconds \in 1..MaxWindowSeconds
    /\ requests = << >>
    /\ clock = 0
    /\ returns = << >>

\* DEVELOPER.md:569-582
acquire ==
    LET t_now == clock
        kept == DropOld(requests, t_now - window_seconds)
        wake == IF Full(kept) THEN t_now + SleepTime(kept, t_now) ELSE t_now
        left == IF Full(kept) THEN Tail(kept) ELSE kept
    IN  /\ wake <= MaxTime
        /\ Len(returns) < MaxTime
        /\ requests' = Append(left, Stamp(t_now, wake))
        /\ clock' = wake
        /\ returns' = Append(returns, wake)
        /\ UNCHANGED <<max_requests, window_seconds>>
        /\ OnlyL

\* The caller lets a second pass before its next call.
Pause ==
    /\ clock < MaxTime
    /\ clock' = clock + 1
    /\ UNCHANGED <<max_requests, window_seconds, requests, returns>>
    /\ OnlyL

NextL ==
    \/ acquire
    \/ Pause

-----------------------------------------------------------------------------
(***************************************************************************)
(* Part L.  Claims.                                                        *)
(***************************************************************************)

\* C19: with RateLimiter(max_requests, window_seconds) used by a single
\* caller, in any time interval of length window_seconds at most
\* max_requests calls to acquire() return, for every pattern of call
\* times.  (Stated on intervals closed at the start and open at the end:
\* no max_requests + 1 returns lie less than window_seconds apart.)
C19_WindowBound ==
    \A i \in 1..Len(returns) :
        i + max_requests <= Len(returns)
            => returns[i + max_requests] - returns[i] >= window_seconds

\* What does hold: the deque never holds more than max_requests times.
C19_DequeBounded == Len(requests) <= max_requests

-----------------------------------------------------------------------------
(***************************************************************************)
(* Part M.  The decorator retry_with_backoff of docs/DEVELOPER.md.  Every  *)
(* invocation of the wrapped function terminates: it returns, or raises    *)
(* one of the errors listed in Outcomes.                                   *)
(***************************************************************************)
MaxMaxRetries == 3

base_delay == 1

\* How an invocation of the wrapped function ends: it returns; it raises a
\* RateLimitError whose retry_after is None, 0 or 3; a GagiteckError with a
\* status from 500 on, or below 500; or another exception.
RateLimits == {"rate_limit", "rate_limit_retry_after_0",
               "rate_limit_retry_after"}
Outcomes == {"ok", "error_5xx", "error_4xx", "other_error"} \cup RateLimits

\* Whether RateLimitError.retry_after is a number (not None).
HasRetryAfter(o) == o \in {"rate_limit_retry_after_0", "rate_limit_retry_after"}

\* RateLimitError.retry_after, in seconds, where it is a number.
e_retry_after(o) == IF o = "rate_limit_retry_after" THEN 3 ELSE 0

\* DEVELOPER.md:525, 531-532: the errors the wrapper may retry.
Retryable(o) == o \in RateLimits \cup {"error_5xx"}

\* The mutant of MayRetry: the last attempt's error is retried as well.
MayRetryOffByOne(a) == a < max_retries

\* DEVELOPER.md:526, 532: attempt < max_retries - 1
MayRetry(a) == a < max_retries - 1

\* The mutant of Delay: retry_after is not looked at.
DelayBackoffOnly(o, a) == base_delay * 2 ^ a

\* DEVELOPER.md:527, 533: the time slept before the next attempt.
\* `e.retry_after or x` is x when retry_after is None or 0.
Delay(o, a) ==
    IF o \in RateLimits /\ HasRetryAfter(o) /\ e_retry_after(o) # 0
    THEN e_retry_after(o)
    ELSE base_delay * 2 ^ a

InitM ==
    /\ max_retries \in 0..MaxMaxRetries
    /\ retryPc = "idle"
    /\ attempt = 0
    /\ outcomes = << >>
    /\ raised = "none"
    /\ slept = 0

\* The wrapper is called.
CallWrapper ==
    /\ retryPc = "idle"
    /\ retryPc' = "loop"
    /\ attempt' = 0
    /\ outcomes' = << >>
    /\ raised' = "none"
    /\ slept' = 0
    /\ UNCHANGED max_retries
    /\ OnlyM

\* DEVELOPER.md:522-535: one pass of the loop.
Attempt ==
    /\ retryPc = "loop"
    /\ attempt < max_retries
    /\ \E o \in Outcomes :
         /\ outcomes' = Append(outcomes, o)
         /\ IF o = "ok"
            THEN /\ retryPc' = "returned"
                 /\ UNCHANGED <<attempt, raised, slept>>
            ELSE IF Retryable(o) /\ MayRetry(attempt)
            THEN /\ slept' = slept + Delay(o, attempt)
                 /\ attempt' = attempt + 1
                 /\ UNCHANGED <<retryPc, raised>>
            ELSE /\ retryPc' = "raised"
                 /\ raised' = o
                 /\ UNCHANGED <<attempt, slept>>
    /\ UNCHANGED max_retries
    /\ OnlyM

\* DEVELOPER.md:536: the call after the loop, outside any try.
AfterLoop ==
    /\ retryPc = "loop"
    /\ attempt >= max_retries
    /\ \E o \in Outcomes :
         /\ outcomes' = Append(outcomes, o)
         /\ IF o = "ok"
            THEN /\ retryPc' = "returned"
                 /\ UNCHANGED raised
            ELSE /\ retryPc' = "raised"
                 /\ raised' = o
    /\ UNCHANGED <<max_retries, attempt, slept>>
    /\ OnlyM

\* The caller is ready for its next call.
NextCall ==
    /\ retryPc \in {"returned", "raised"}
    /\ retryPc' = "idle"
    /\ UNCHANGED <<max_retries, attempt, outcomes, raised, slept>>
    /\ OnlyM

NextM ==
    \/ CallWrapper
    \/ Attempt
    \/ AfterLoop
    \/ NextCall

-----------------------------------------------------------------------------
(***************************************************************************)
(* Part M.  Claims.                                                        *)
(***************************************************************************)

\* The number of invocations of the wrapped function in the current call.
Invocations == Len(outcomes)

\* The call returned the result of its first successful invocation.
ReturnedFirstSuccess ==
    /\ outcomes # << >>
    /\ outcomes[Invocations] = "ok"
    /\ \A i \in 1..(Invocations - 1) : outcomes[i] # "ok"

\* C20 as stated: a function wrapped by retry_with_backoff(max_retries=n),
\* n >= 1, is invoked at most n times per call; the call ends either by
\* returning the first successful result or by raising the error of the
\* n-th attempt.
C20_NthError ==
    max_retries >= 1 =>
        /\ Invocations <= max_retries
        /\ retryPc = "returned" => ReturnedFirstSuccess
        /\ retryPc = "raised" =>
              (Invocations = max_retries /\ raised = outcomes[max_retries])

\* The state part of C20 as amended.
C20_Ends ==
    max_retries >= 1 =>
        /\ Invocations <= max_retries
        /\ retryPc = "returned" => ReturnedFirstSuccess
        /\ retryPc = "raised" =>
              /\ outcomes # << >>
              /\ raised = outcomes[Invocations]
              /\ raised # "ok"
              /\ Invocations = max_retries \/ ~Retryable(raised)
              /\ \A i \in 1..(Invocations - 1) : Retryable(outcomes[i])

\* C20, amended: a function wrapped by retry_with_backoff(max_retries=n),
\* n >= 1, is invoked at most n times per call; the call ends either by
\* returning the first successful result or by raising the error of the
\* last attempt made, which is the n-th attempt or an earlier one whose
\* error is neither a RateLimitError nor a GagiteckError with a status from
\* 500 on; and it terminates whenever each invocation of the function
\* terminates.
C20_RetryEnds ==
    /\ []C20_Ends
    /\ (retryPc = "loop") ~> (retryPc \in {"returned", "raised"})

\* With max_retries = 3 the call raised the error of its second attempt, a
\* 4xx, after a retried rate limit.
C20_Witness ==
    /\ max_retries = 3
    /\ retryPc = "raised"
    /\ outcomes = <<"rate_limit", "error_4xx">>
    /\ raised = "error_4xx"

\* The invocation made in this step, where one was made.
Invoked == Len(outcomes') = Len(outcomes) + 1
ThisOutcome == outcomes'[Len(outcomes')]

\* The step goes on to another attempt.
Retries == Invoked /\ retryPc' = "loop"

\* What C21 says of errors: only a RateLimitError or a 5xx is retried, a
\* 4xx is raised at once with no sleep, and once the call has ended the
\* function is not invoked again.
C21_ErrorsPart ==
    /\ Retries => Retryable(ThisOutcome)
    /\ (Invoked /\ ThisOutcome = "error_4xx")
          => (retryPc' = "raised" /\ raised' = "error_4xx" /\ slept' = slept)
    /\ retryPc \in {"returned", "raised"} => outcomes' = outcomes

\* C21 as stated: retry_with_backoff retries only after a RateLimitError or
\* a GagiteckError with status >= 500: a GagiteckError with status below
\* 500 is re-raised after the first attempt with no sleep and no further
\* invocation; before a rate-limit retry it sleeps e.retry_after when that
\* is set and base_delay * 2^attempt otherwise.
C21_SleepsRetryAfter ==
    [][ /\ C21_ErrorsPart
        /\ (Retries /\ ThisOutcome \in RateLimits) =>
              slept' - slept = IF HasRetryAfter(ThisOutcome)
                               THEN e_retry_after(ThisOutcome)
                               ELSE base_delay * 2 ^ attempt ]_vars

\* C21, amended: retry_with_backoff retries only after a RateLimitError or
\* a GagiteckError with status >= 500: a GagiteckError with status below
\* 500 is re-raised after the first attempt with no sleep and no further
\* invocation; before a rate-limit retry it sleeps e.retry_after when that
\* is set and not zero, and base_delay * 2^attempt otherwise.
C21_RetryPolicy ==
    [][ /\ C21_ErrorsPart
        /\ (Retries /\ ThisOutcome \in RateLimits) =>
              slept' - slept = IF HasRetryAfter(ThisOutcome)
                                  /\ e_retry_after(ThisOutcome) # 0
                               THEN e_retry_after(ThisOutcome)
                               ELSE base_delay * 2 ^ attempt ]_vars

\* A rate limit with retry_after = 3 was slept out, one without after the
\* backoff of the second attempt, and the 4xx of the third was raised.
C21_Witness ==
    /\ max_retries = 3
    /\ retryPc = "raised"
    /\ outcomes = <<"rate_limit_retry_after", "rate_limit", "error_4xx">>
    /\ slept = 3 + 2
    /\ raised = "error_4xx"

-----------------------------------------------------------------------------
(***************************************************************************)
(* Part N.  The poll-for-completion loops of docs/DEVELOPER.md: the        *)
(* `while` loop of the workflow example and the `for` loop of              *)
(* test_full_workflow.  The client polls the executions of Part C, which   *)
(* the engine and other clients go on changing between two polls.          *)
(***************************************************************************)
PollLimit == 3

PollLoops == {"while", "for"}

\* GET /v1/executions/{id}: the status of the record.
GetStatus(e) == execs[e].status

\* The mutant of StillRunning: the test is turned around.
StillRunningInverted(st) == st # "running"

\* DEVELOPER.md:131, 673: execution.status == "running"
StillRunning(st) == st = "running"

InitN ==
    /\ pollLoop = "while"
    /\ pollPc = "idle"
    /\ pollId = 0
    /\ pollStatus = "none"
    /\ polls = 0

\* DEVELOPER.md:123-128, 664-668: execution is the answer of
\* workflows.trigger.
PollStart ==
    /\ pollPc = "idle"
    /\ lastTrigger.ok
    /\ \E l \in PollLoops : pollLoop' = l
    /\ pollId' = lastTrigger.id
    /\ pollStatus' = lastTrigger.status
    /\ polls' = 0
    /\ pollPc' = "polling"
    /\ OnlyN

\* DEVELOPER.md:131-133: the loop test and, while it holds, one pass of
\* the body.
WhilePoll ==
    /\ pollPc = "polling"
    /\ pollLoop = "while"
    /\ IF StillRunning(pollStatus)
       THEN /\ pollStatus' = GetStatus(pollId)
            /\ UNCHANGED pollPc
       ELSE /\ pollPc' = "exited"
            /\ UNCHANGED pollStatus
    /\ UNCHANGED <<pollLoop, pollId, polls>>
    /\ OnlyN

\* DEVELOPER.md:671-675: one pass of the loop, or its end at the limit.
ForPoll ==
    /\ pollPc = "polling"
    /\ pollLoop = "for"
    /\ IF polls < PollLimit
       THEN /\ pollStatus' = GetStatus(pollId)
            /\ polls' = polls + 1
            /\ pollPc' = IF StillRunning(GetStatus(pollId))
                         THEN "polling" ELSE "exited"
       ELSE /\ pollPc' = "limit"
            /\ UNCHANGED <<pollStatus, polls>>
    /\ UNCHANGED <<pollLoop, pollId>>
    /\ OnlyN

\* The script is done; it may be run again.
PollAgain ==
    /\ pollPc \in {"exited", "limit"}
    /\ pollPc' = "idle"
    /\ pollId' = 0
    /\ pollStatus' = "none"
    /\ polls' = 0
    /\ UNCHANGED pollLoop
    /\ OnlyN

NextN ==
    \/ ApiTrigger
    \/ \E e \in 1..MaxExecs : ApiCancel(e)
    \/ \E e \in 1..MaxExecs : StepStart(e)
    \/ \E e \in 1..MaxExecs : StepFinish(e)
    \/ \E e \in 1..MaxExecs : StepFail(e)
    \/ \E e \in 1..MaxExecs : Complete(e)
    \/ PollStart
    \/ WhilePoll
    \/ ForPoll
    \/ PollAgain

-----------------------------------------------------------------------------
(***************************************************************************)
(* Part N.  Claims.                                                        *)
(***************************************************************************)

-----------------------------------------------------------------------------
(***************************************************************************)
(* Part O.  The global search (components/search.tsx, GlobalSearch).       *)
(*                                                                         *)
(* Time passes in steps of 100 ms.  A timer is a handle, the query its     *)
(* callback closed over and its age; a request in flight keeps the query   *)
(* it was sent for.  A result list is the query it answers and its         *)
(* length; the list [] of search.tsx:50 answers no query.                  *)
(***************************************************************************)
MaxTimers == 3
MaxResults == 2

DebounceMs == 300

Queries == {"", " ", "a", "b"}

\* search.tsx:49: !query.trim()
Blank(q) == q \in {"", " "}

NoResults == [q |-> "none", n |-> 0]

MinOf(a, b) == IF a <= b THEN a ELSE b
MaxOf(a, b) == IF a >= b THEN a ELSE b

\* The mutant of ClearTimeout: the cleanup clears nothing.
ClearTimeoutNothing(ts, handle) == ts

\* search.tsx:71: clearTimeout(searchTimeout)
ClearTimeout(ts, handle) == {t \in ts : t.id # handle}

\* results[selectedIndex] is an element of the list.
HasSelected == selectedIndex >= 0 /\ selectedIndex < results.n

InitO ==
    /\ isOpen = FALSE
    /\ query = ""
    /\ results = NoResults
    /\ loading = FALSE
    /\ selectedIndex = 0
    /\ timers = {}
    /\ searchTimeout = 0
    /\ nextHandle = 1
    /\ inflight = {}
    /\ sinceEdit = 0
    /\ selected = NoResults

\* setQuery(q) and the effect of search.tsx:48-72 that follows a change of
\* query: the cleanup of the previous run, then the new run.
SetQuery(q) ==
    /\ query' = q
    /\ IF q = query
       THEN UNCHANGED <<results, timers, searchTimeout, nextHandle, sinceEdit>>
       ELSE /\ sinceEdit' = 0
            /\ IF Blank(q)
               THEN /\ results' = NoResults
                    /\ timers' = ClearTimeout(timers, searchTimeout)
                    /\ searchTimeout' = 0
                    /\ UNCHANGED nextHandle
               ELSE /\ timers' = ClearTimeout(timers, searchTimeout)
                                   \cup {[id |-> nextHandle, q |-> q, age |-> 0]}
                    /\ searchTimeout' = nextHandle
                    /\ nextHandle' = nextHandle + 1
                    /\ UNCHANGED results

\* search.tsx:24-38, 134: Cmd/Ctrl + K or the search button.
OpenSearch ==
    /\ ~isOpen
    /\ isOpen' = TRUE
    /\ UNCHANGED <<query, results, loading, selectedIndex, timers,
                   searchTimeout, nextHandle, inflight, sinceEdit, selected>>
    /\ OnlyO

\* search.tsx:31-33, 150: Escape or a click on the backdrop.
CloseSearch ==
    /\ isOpen
    /\ isOpen' = FALSE
    /\ UNCHANGED <<query, results, loading, selectedIndex, timers,
                   searchTimeout, nextHandle, inflight, sinceEdit, selected>>
    /\ OnlyO

\* search.tsx:163, 170: the input's onChange, or the clear button.
TypeQuery ==
    /\ isOpen
    /\ \E q \in Queries \ {query} :
         /\ Blank(q) \/ nextHandle <= MaxTimers
         /\ SetQuery(q)
    /\ UNCHANGED <<isOpen, loading, selectedIndex, inflight, selected>>
    /\ OnlyO

\* 100 ms pass; a timer that is due fires first.
Elapse ==
    /\ \A t \in timers : t.age < DebounceMs
    /\ sinceEdit < DebounceMs \/ timers # {}
    /\ timers' = {[t EXCEPT !.age = t.age + 100] : t \in timers}
    /\ sinceEdit' = MinOf(sinceEdit + 100, DebounceMs)
    /\ UNCHANGED <<isOpen, query, results, loading, selectedIndex,
                   searchTimeout, nextHandle, inflight, selected>>
    /\ OnlyO

\* search.tsx:54-58: the timer's callback up to the await of fetch.
TimerFires ==
    /\ \E t \in timers :
         /\ t.age >= DebounceMs
         /\ timers' = timers \ {t}
         /\ inflight' = inflight \cup {[id |-> t.id, q |-> t.q]}
    /\ loading' = TRUE
    /\ UNCHANGED <<isOpen, query, results, selectedIndex, searchTimeout,
                   nextHandle, sinceEdit, selected>>
    /\ OnlyO

\* search.tsx:59-68: a response arrives, OK with a list, or not OK, or
\* fetch or json() throws.
SearchResponse ==
    /\ \E r \in inflight :
         /\ inflight' = inflight \ {r}
         /\ \/ \E n \in 0..MaxResults :
                 /\ results' = [q |-> r.q, n |-> n]
                 /\ selectedIndex' = 0
            \/ UNCHANGED <<results, selectedIndex>>
    /\ loading' = FALSE
    /\ UNCHANGED <<isOpen, query, timers, searchTimeout, nextHandle,
                   sinceEdit, selected>>
    /\ OnlyO

\* search.tsx:76-78
ArrowDown ==
    /\ isOpen
    /\ selectedIndex' = MinOf(selectedIndex + 1, results.n - 1)
    /\ UNCHANGED <<isOpen, query, results, loading, timers, searchTimeout,
                   nextHandle, inflight, sinceEdit, selected>>
    /\ OnlyO

\* search.tsx:79-81
ArrowUp ==
    /\ isOpen
    /\ selectedIndex' = MaxOf(selectedIndex - 1, 0)
    /\ UNCHANGED <<isOpen, query, results, loading, timers, searchTimeout,
                   nextHandle, inflight, sinceEdit, selected>>
    /\ OnlyO

\* search.tsx:87-102: handleSelect of the i-th result.
handleSelect(i) ==
    /\ selected' = [q |-> results.q, n |-> i]
    /\ isOpen' = FALSE
    /\ SetQuery("")
    /\ UNCHANGED <<loading, selectedIndex, inflight>>
    /\ OnlyO

\* search.tsx:82-84: Enter.
EnterKey ==
    /\ isOpen
    /\ HasSelected
    /\ handleSelect(selectedIndex)

\* search.tsx:183: a click on a result.
ClickResult ==
    /\ isOpen
    /\ \E i \in 0..(results.n - 1) : handleSelect(i)

NextO ==
    \/ OpenSearch
    \/ CloseSearch
    \/ TypeQuery
    \/ Elapse
    \/ TimerFires
    \/ SearchResponse
    \/ ArrowDown
    \/ ArrowUp
    \/ EnterKey
    \/ ClickResult

-----------------------------------------------------------------------------
(***************************************************************************)
(* Part O.  Claims.                                                        *)
(***************************************************************************)

\* No timer is pending and no request is in flight.
SearchQuiet == timers = {} /\ inflight = {}

\* C23: in the global search, once all in-flight search responses have
\* arrived the results shown are those of the most recently typed
\* non-empty query (a response for an older query never replaces the
\* results of a newer one), and whenever the query is empty the result
\* list is empty.
C23_LatestResults ==
    /\ (SearchQuiet /\ ~Blank(query) /\ results.n > 0) => results.q = query
    /\ query = "" => results.n = 0

\* C24: the global search sends a request only for a query value that has
\* stayed unchanged for 300 ms: changing the query earlier cancels the
\* pending timer, at most one timer is pending at any time, and an empty
\* or whitespace-only query sends no request and clears the results at
\* once.
C24_Debounce ==
    /\ [](Cardinality(timers) <= 1)
    /\ [][ /\ \A r \in inflight' \ inflight :
                 /\ r.q = query
                 /\ ~Blank(r.q)
                 /\ sinceEdit >= DebounceMs
           /\ query' # query =>
                 /\ timers' \cap timers = {}
                 /\ inflight' = inflight
                 /\ \A t \in timers' : t.q = query' /\ t.age = 0
           /\ (query' # query /\ Blank(query')) =>
                 (timers' = {} /\ results' = NoResults) ]_vars

\* "b" was typed second and stayed for 300 ms: its timer fired and its
\* request is the only one in flight; no other timer is pending.
C24_Witness ==
    /\ query = "b"
    /\ nextHandle = 3
    /\ timers = {}
    /\ inflight = {[id |-> 2, q |-> "b"]}
    /\ results = NoResults
    /\ sinceEdit = DebounceMs

\* C25: in the global search, after any sequence of arrow-key presses,
\* query edits and search responses, selectedIndex is never negative, and
\* whenever the result list is non-empty selectedIndex is smaller than the
\* number of results; pressing Enter selects a result only when
\* results[selectedIndex] exists.
C25_IndexInRange ==
    /\ selectedIndex >= 0
    /\ results.n > 0 => selectedIndex < results.n
    /\ selected # NoResults => (selected.n >= 0 /\ selected.q # "none")

\* What does hold: the index is -1 at the least, and within a non-empty
\* list.
C25_IndexWithinList ==
    /\ selectedIndex >= -1
    /\ results.n > 0 => (selectedIndex >= 0 /\ selectedIndex < results.n)

-----------------------------------------------------------------------------
(***************************************************************************)
(* Part P.  The onboarding modal (part_005, Onboarding) in one browser     *)
(* tab, with the three localStorage keys it reads and writes.  A page      *)
(* load mounts the component anew: its state starts from the useState      *)
(* values and both mount effects run.  The button of a step also sends the *)
(* router to the step's page.                                              *)
(***************************************************************************)
StepList == <<"create-agent", "create-workflow", "run-execution">>
StepIds == {StepList[i] : i \in 1..Len(StepList)}

\* part_005:29, 38, 47: the href of each step.
StepHref == <<"/agents", "/workflows", "/executions">>
Routes == {"/"} \cup {StepHref[i] : i \in 1..Len(StepHref)}

\* The mutant of ShouldStayHidden: only the dismissal is looked at.
ShouldStayHiddenDismissedOnly(onboardingDismissed, onboardingCompleted) ==
    onboardingDismissed

\* part_005:57
ShouldStayHidden(onboardingDismissed, onboardingCompleted) ==
    onboardingDismissed \/ onboardingCompleted

\* part_005:123: the modal is rendered.
ModalVisible == ~dismissed /\ isVisible

\* part_005:16-84: the state after the mount effects; the steps are those
\* of the saved map.
Mount ==
    /\ isVisible' = FALSE
    /\ currentStep' = 0
    /\ dismissed' = ShouldStayHidden(lsDismissed, lsCompleted)
    /\ showTimer' = ~ShouldStayHidden(lsDismissed, lsCompleted)
    /\ completed' = lsSteps

InitP ==
    /\ route = "/"
    /\ lsDismissed = FALSE
    /\ lsCompleted = FALSE
    /\ lsSteps = {}
    /\ isVisible = FALSE
    /\ currentStep = 0
    /\ dismissed = FALSE
    /\ showTimer = TRUE
    /\ completed = {}
    /\ neverAgain = FALSE
    /\ everCompleted = {}

\* The page is loaded again (a reload, or a navigation that mounts the
\* component anew).
PageLoad ==
    /\ Mount
    /\ \E r \in Routes : route' = r
    /\ UNCHANGED <<lsDismissed, lsCompleted, lsSteps, neverAgain, everCompleted>>
    /\ OnlyP

\* part_005:63-65: the timer of one second fires.
ShowTimerFires ==
    /\ showTimer
    /\ showTimer' = FALSE
    /\ isVisible' = TRUE
    /\ UNCHANGED <<lsDismissed, lsCompleted, lsSteps, currentStep, dismissed,
                   completed, neverAgain, everCompleted>>
    /\ UNCHANGED route
    /\ OnlyP

\* part_005:170: a click on a step that is not completed.
SelectStep ==
    /\ ModalVisible
    /\ \E i \in 0..(Len(StepList) - 1) :
         /\ StepList[i + 1] \notin completed
         /\ i # currentStep
         /\ currentStep' = i
    /\ UNCHANGED <<lsDismissed, lsCompleted, lsSteps, isVisible, dismissed,
                   showTimer, completed, neverAgain, everCompleted>>
    /\ UNCHANGED route
    /\ OnlyP

\* part_005:86-108, from the button of the current step (189-196).
handleStepAction ==
    /\ ModalVisible
    /\ StepList[currentStep + 1] \notin completed
    /\ LET updatedSteps == completed \cup {StepList[currentStep + 1]}
       IN  /\ completed' = updatedSteps
           /\ lsSteps' = updatedSteps
           /\ lsCompleted' = (lsCompleted \/ updatedSteps = StepIds)
           /\ neverAgain' = (neverAgain \/ updatedSteps = StepIds)
           /\ everCompleted' = everCompleted \cup updatedSteps
    /\ route' = StepHref[currentStep + 1]
    /\ isVisible' = FALSE
    /\ UNCHANGED <<lsDismissed, currentStep, dismissed, showTimer>>
    /\ OnlyP

\* part_005:110-114: "Don't show again", or the X.
handleDismiss ==
    /\ ModalVisible
    /\ lsDismissed' = TRUE
    /\ dismissed' = TRUE
    /\ isVisible' = FALSE
    /\ neverAgain' = TRUE
    /\ UNCHANGED <<lsCompleted, lsSteps, currentStep, showTimer, completed,
                   everCompleted>>
    /\ UNCHANGED route
    /\ OnlyP

\* part_005:116-118: "I'll explore on my own", or the backdrop.
handleSkip ==
    /\ ModalVisible
    /\ isVisible' = FALSE
    /\ UNCHANGED <<lsDismissed, lsCompleted, lsSteps, currentStep, dismissed,
                   showTimer, completed, neverAgain, everCompleted>>
    /\ UNCHANGED route
    /\ OnlyP

NextP ==
    \/ PageLoad
    \/ ShowTimerFires
    \/ SelectStep
    \/ handleStepAction
    \/ handleDismiss
    \/ handleSkip

-----------------------------------------------------------------------------
(***************************************************************************)
(* Part P.  Claims.                                                        *)
(***************************************************************************)

\* The three keys of localStorage.
Persisted == <<lsDismissed, lsCompleted, lsSteps>>

\* C26: once the user chooses "Don't show again", or has completed all
\* three onboarding steps, the onboarding modal is never visible again, in
\* the current session or after any later page load; closing it with
\* "I'll explore on my own" or the backdrop hides it without persisting
\* anything, and a step once marked completed never becomes incomplete.
C26_Onboarding ==
    /\ [](neverAgain => ~ModalVisible)
    /\ [](everCompleted \subseteq lsSteps)
    /\ [][ /\ (ModalVisible /\ ~ModalVisible' /\ Persisted' = Persisted
                 /\ ~neverAgain')
              \/ ~handleSkip
           /\ completed \subseteq completed'
           /\ lsSteps \subseteq lsSteps' ]_vars

\* All three steps were completed over three page loads; the page was
\* loaded once more and the modal stays away.
C26_Witness ==
    /\ neverAgain
    /\ ~lsDismissed
    /\ lsCompleted
    /\ completed = StepIds
    /\ dismissed
    /\ ~showTimer

-----------------------------------------------------------------------------
(***************************************************************************)
(* Specifications.                                                         *)
(***************************************************************************)
IdleA == InitA /\ build = "middleware_a"
IdleB == InitB /\ flavour = "flask" /\ hookSecret = 1
IdleC == InitC /\ deps = NoDeps
IdleD == InitD
IdleE == InitE
IdleF == InitF
IdleG == InitG
IdleH == InitH
IdleI == InitI /\ NEXTAUTH_URL = << >> /\ NEXT_PUBLIC_APP_URL = << >> /\ NODE_ENV = "production"
IdleJ == InitJ /\ authBuild = "part_009"
IdleK == InitK /\ formPage = "/auth/signup"
IdleL == InitL /\ max_requests = 1 /\ window_seconds = 1
IdleM == InitM /\ max_retries = 1
IdleN == InitN
IdleO == InitO
IdleP == InitP

StartA == InitA /\ IdleB /\ IdleC /\ IdleD /\ IdleE /\ IdleF /\ IdleG /\ IdleH /\ IdleI /\ IdleJ /\ IdleK /\ IdleL /\ IdleM /\ IdleN /\ IdleO /\ IdleP

SpecA == StartA /\ [][NextA]_vars

StartB == InitB /\ IdleA /\ IdleC /\ IdleD /\ IdleE /\ IdleF /\ IdleG /\ IdleH /\ IdleI /\ IdleJ /\ IdleK /\ IdleL /\ IdleM /\ IdleN /\ IdleO /\ IdleP

SpecB == StartB /\ [][NextB]_vars

StartC == InitC /\ IdleA /\ IdleB /\ IdleD /\ IdleE /\ IdleF /\ IdleG /\ IdleH /\ IdleI /\ IdleJ /\ IdleK /\ IdleL /\ IdleM /\ IdleN /\ IdleO /\ IdleP

SpecC == StartC /\ [][NextC]_vars

\* The engine does not stop while an execution has a step to take; followed
\* on the three shapes of workflow.
StartCFair ==
    /\ InitC
    /\ deps \in {NoDeps, Chain, ReverseChain}
    /\ IdleA /\ IdleB /\ IdleD /\ IdleE /\ IdleF /\ IdleG /\ IdleH /\ IdleI /\ IdleJ /\ IdleK /\ IdleL /\ IdleM /\ IdleN /\ IdleO /\ IdleP

SpecCFair ==
    /\ StartCFair
    /\ [][NextC]_vars
    /\ WF_vars(\E e \in 1..MaxExecs : Engine(e))

\* The dashboard is followed on a workflow whose steps form a chain.
StartCD ==
    /\ InitC
    /\ deps = Chain
    /\ IdleA /\ IdleB /\ IdleD /\ IdleE /\ IdleF /\ IdleG /\ IdleH /\ IdleI /\ IdleJ /\ IdleK /\ IdleL /\ IdleM /\ IdleN /\ IdleO /\ IdleP

SpecCD == StartCD /\ [][NextCD]_vars

StartD == InitD /\ IdleA /\ IdleB /\ IdleC /\ IdleE /\ IdleF /\ IdleG /\ IdleH /\ IdleI /\ IdleJ /\ IdleK /\ IdleL /\ IdleM /\ IdleN /\ IdleO /\ IdleP

SpecD == StartD /\ [][NextD]_vars

\* A model call and a tool call return or run into the run's timeout.
SpecDFair == SpecD /\ WF_vars(RunStep)

StartE == InitE /\ IdleA /\ IdleB /\ IdleC /\ IdleD /\ IdleF /\ IdleG /\ IdleH /\ IdleI /\ IdleJ /\ IdleK /\ IdleL /\ IdleM /\ IdleN /\ IdleO /\ IdleP

SpecE == StartE /\ [][NextE]_vars

StartF == InitF /\ IdleA /\ IdleB /\ IdleC /\ IdleD /\ IdleE /\ IdleG /\ IdleH /\ IdleI /\ IdleJ /\ IdleK /\ IdleL /\ IdleM /\ IdleN /\ IdleO /\ IdleP

SpecF == StartF /\ [][NextF]_vars

StartG == InitG /\ IdleA /\ IdleB /\ IdleC /\ IdleD /\ IdleE /\ IdleF /\ IdleH /\ IdleI /\ IdleJ /\ IdleK /\ IdleL /\ IdleM /\ IdleN /\ IdleO /\ IdleP

SpecG == StartG /\ [][NextG]_vars

StartH == InitH /\ IdleA /\ IdleB /\ IdleC /\ IdleD /\ IdleE /\ IdleF /\ IdleG /\ IdleI /\ IdleJ /\ IdleK /\ IdleL /\ IdleM /\ IdleN /\ IdleO /\ IdleP

SpecH == StartH /\ [][NextH]_vars

StartI == InitI /\ IdleA /\ IdleB /\ IdleC /\ IdleD /\ IdleE /\ IdleF /\ IdleG /\ IdleH /\ IdleJ /\ IdleK /\ IdleL /\ IdleM /\ IdleN /\ IdleO /\ IdleP

SpecI == StartI /\ [][NextI]_vars

StartJ == InitJ /\ IdleA /\ IdleB /\ IdleC /\ IdleD /\ IdleE /\ IdleF /\ IdleG /\ IdleH /\ IdleI /\ IdleK /\ IdleL /\ IdleM /\ IdleN /\ IdleO /\ IdleP

SpecJ == StartJ /\ [][NextJ]_vars

StartK == InitK /\ IdleA /\ IdleB /\ IdleC /\ IdleD /\ IdleE /\ IdleF /\ IdleG /\ IdleH /\ IdleI /\ IdleJ /\ IdleL /\ IdleM /\ IdleN /\ IdleO /\ IdleP

SpecK == StartK /\ [][NextK]_vars

StartL == InitL /\ IdleA /\ IdleB /\ IdleC /\ IdleD /\ IdleE /\ IdleF /\ IdleG /\ IdleH /\ IdleI /\ IdleJ /\ IdleK /\ IdleM /\ IdleN /\ IdleO /\ IdleP

SpecL == StartL /\ [][NextL]_vars

StartM == InitM /\ IdleA /\ IdleB /\ IdleC /\ IdleD /\ IdleE /\ IdleF /\ IdleG /\ IdleH /\ IdleI /\ IdleJ /\ IdleK /\ IdleL /\ IdleN /\ IdleO /\ IdleP

SpecM == StartM /\ [][NextM]_vars

\* The wrapper runs on: each invocation of the wrapped function and each
\* sleep ends.
SpecMFair == SpecM /\ WF_vars(Attempt) /\ WF_vars(AfterLoop)

StartN == InitN /\ IdleA /\ IdleB /\ IdleC /\ IdleD /\ IdleE /\ IdleF /\ IdleG /\ IdleH /\ IdleI /\ IdleJ /\ IdleK /\ IdleL /\ IdleM /\ IdleO /\ IdleP

SpecN == StartN /\ [][NextN]_vars

StartO == InitO /\ IdleA /\ IdleB /\ IdleC /\ IdleD /\ IdleE /\ IdleF /\ IdleG /\ IdleH /\ IdleI /\ IdleJ /\ IdleK /\ IdleL /\ IdleM /\ IdleN /\ IdleP

SpecO == StartO /\ [][NextO]_vars

StartP == InitP /\ IdleA /\ IdleB /\ IdleC /\ IdleD /\ IdleE /\ IdleF /\ IdleG /\ IdleH /\ IdleI /\ IdleJ /\ IdleK /\ IdleL /\ IdleM /\ IdleN /\ IdleO

SpecP == StartP /\ [][NextP]_vars

=============================================================================
